---- MODULE Spec2Model ----
(***************************************************************************)
(* A model of flanker.addresslib.address: the parsing entry points         *)
(* (parse, parse_discrete_list, parse_list), the validation pipeline       *)
(* (validate_address, validate_list) and the address classes they build.   *)
(*                                                                         *)
(* Python values are records tagged by their type in field t.  A string is *)
(* a sequence of atoms (toks) with a flag telling unicode from byte        *)
(* strings; an atom has a length in characters and a length in UTF-8       *)
(* bytes, so encoding a unicode string changes what len() measures.        *)
(***************************************************************************)
EXTENDS Integers, Sequences, FiniteSets, TLC

\* ------------------------------------------------------------- constants

MAX_ADDRESS_LENGTH == 1024
MAX_ADDRESS_NUMBER == 1024
MAX_ADDRESS_LIST_LENGTH == MAX_ADDRESS_LENGTH * MAX_ADDRESS_NUMBER

\* The longest explicit list of items an entry point is called with (longer
\* lists are the uniform ones of LongLists).
MaxItems == 2
\* The longest time a timed section takes, in clock ticks.
MaxElapsed == 1

Elapsed == 0..MaxElapsed

\* The caller threads that run concurrently, each making one call of an
\* entry point or a constructor.
MaxThreads == 2

\* ---------------------------------------------------------------- values

None == [t |-> "None"]
Str(uni, toks) == [t |-> "str", uni |-> uni, toks |-> toks]
Bytes(toks) == Str(FALSE, toks)
Unicode(toks) == Str(TRUE, toks)
PyInt(n) == [t |-> "int", n |-> n]
PyBool(b) == [t |-> "bool", b |-> b]
PyList(items) == [t |-> "list", items |-> items]
Tuple(items) == [t |-> "tuple", items |-> items]
Raise(exc) == [t |-> "raise", exc |-> exc]

IsStr(v) == v.t = "str"
IsUnicode(v) == v.t = "str" /\ v.uni
IsList(v) == v.t = "list"
IsRaise(v) == v.t = "raise"

\* ----------------------------------------------------------------- atoms

\* Characters and UTF-8 bytes of an atom.  The atoms named by a letter and a
\* number stand for that many repetitions of the letter.
CharSize(a) ==
    CASE a = "" -> 0
      [] a \in {"a", "A", "e'", "N", "@", ">", ",", "?", "^", "%", " "} -> 1
      [] a = " <" -> 2
      [] a \in {"b.com", "B.com"} -> 5
      [] a = "e'.com" -> 6
      [] a = "xn--9ca.com" -> 11
      [] a = "=?utf-8?b?w6k=?=" -> 16
      [] a = "http://h" -> 8
      [] a = "e'x509" -> 509
      [] a = "e'x510" -> 510
      [] a = "ax1018" -> 1018
      [] a = "ax1019" -> 1019
      [] a = "e'x524289" -> 524289
      [] a = "?x1048576" -> 1048576
      [] a = "?x1048577" -> 1048577

\* e' is a two-byte character (U+00E9).
ByteSize(a) ==
    CASE a = "e'" -> 2
      [] a = "e'.com" -> 7
      [] a = "e'x509" -> 1018
      [] a = "e'x510" -> 1020
      [] a = "e'x524289" -> 1048578
      [] OTHER -> CharSize(a)

is_pure_ascii(a) == ByteSize(a) = CharSize(a)

Lower(a) ==
    CASE a = "A" -> "a"
      [] a = "B.com" -> "b.com"
      [] a = "N" -> "n"
      [] OTHER -> a

RECURSIVE SumChars(_)
SumChars(toks) ==
    IF toks = <<>> THEN 0 ELSE CharSize(Head(toks)) + SumChars(Tail(toks))

RECURSIVE SumBytes(_)
SumBytes(toks) ==
    IF toks = <<>> THEN 0 ELSE ByteSize(Head(toks)) + SumBytes(Tail(toks))

\* len(s): characters of a unicode string, bytes of a byte string.
PyLen(s) == IF s.uni THEN SumChars(s.toks) ELSE SumBytes(s.toks)

\* s.encode('utf-8') and s.decode('utf-8')
EncodeUtf8(s) == Str(FALSE, s.toks)
DecodeUtf8(s) == Str(TRUE, s.toks)

\* ------------------------------------------------------ grammar engine
\* flanker.addresslib.parser and ply: parser.parse(bytes, lexer=lexer).  The
\* grammar over atoms: an addr-spec is local "@" domain, a mailbox is an
\* addr-spec or name " <" local "@" domain ">", a URL is "http://h", a list is
\* mailboxes and URLs separated by ",".  "^" is a character the lexer rejects,
\* "%" makes the parser tables fail, anything else is a syntax error.  The
\* interface sets no least length for a list: a list text that is blank is
\* the list of no elements.

LocalAtoms == {"a", "A", "e'", "e'x509", "e'x510", "ax1018", "ax1019"}
DomainAtoms == {"b.com", "B.com", ""}
NameAtoms == {"N"}

Mailbox(display_name, local_part, domain) ==
    [k |-> "Mailbox", display_name |-> display_name,
     local_part |-> local_part, domain |-> domain]
Url(address) == [k |-> "Url", address |-> address]
TreeList(items) == [k |-> "list", items |-> items]
EngineError(exc) == [k |-> exc]

IsAddrSpec(toks) ==
    /\ Len(toks) = 3
    /\ toks[1] \in LocalAtoms
    /\ toks[2] = "@"
    /\ toks[3] \in DomainAtoms

IsNameAddr(toks) ==
    /\ Len(toks) = 6
    /\ toks[1] \in NameAtoms
    /\ toks[2] = " <"
    /\ IsAddrSpec(SubSeq(toks, 3, 5))
    /\ toks[6] = ">"

IsUrl(toks) == toks = <<"http://h">>

MailboxOrUrl(toks) ==
    IF IsAddrSpec(toks) THEN Mailbox("", toks[1], toks[3])
    ELSE IF IsNameAddr(toks) THEN Mailbox(toks[1], toks[3], toks[5])
    ELSE IF IsUrl(toks) THEN Url(toks[1])
    ELSE EngineError("SyntaxError")

\* The elements of a delimited list: the runs of atoms between the commas.
RECURSIVE SplitList(_)
SplitList(toks) ==
    IF \A i \in 1..Len(toks) : toks[i] # ","
    THEN <<toks>>
    ELSE LET i == CHOOSE j \in 1..Len(toks) :
                    toks[j] = "," /\ \A h \in 1..(j - 1) : toks[h] # ","
         IN <<SubSeq(toks, 1, i - 1)>> \o SplitList(SubSeq(toks, i + 1, Len(toks)))

\* The trees of a list's elements, or the syntax error of one of them.
ListOfTrees(trees) ==
    IF \E i \in 1..Len(trees) : trees[i].k = "SyntaxError"
    THEN EngineError("SyntaxError")
    ELSE TreeList(trees)

ElementTrees(parts) == [i \in 1..Len(parts) |-> MailboxOrUrl(parts[i])]

EngineParse(grammar, toks) ==
    IF \E i \in 1..Len(toks) : toks[i] = "^" THEN EngineError("LexError")
    ELSE IF \E i \in 1..Len(toks) : toks[i] = "%" THEN EngineError("YaccError")
    ELSE CASE grammar = "addr_spec" ->
                 IF IsAddrSpec(toks) THEN Mailbox("", toks[1], toks[3])
                 ELSE EngineError("SyntaxError")
           [] grammar = "mailbox_or_url" -> MailboxOrUrl(toks)
           [] grammar = "mailbox" ->
                 IF IsUrl(toks) THEN EngineError("SyntaxError")
                 ELSE MailboxOrUrl(toks)
           [] grammar = "url" ->
                 IF IsUrl(toks) THEN Url(toks[1])
                 ELSE EngineError("SyntaxError")
           [] grammar = "mailbox_or_url_list" ->
                 IF toks = <<" ">> THEN TreeList(<<>>)
                 ELSE ListOfTrees(ElementTrees(SplitList(toks)))

IsEngineError(r) == r.k \in {"LexError", "YaccError", "SyntaxError"}

\* flanker.addresslib.quote.smart_unquote
smart_unquote(a) == a

\* --------------------------------------------------------- address model

EmailAddress(display_name, local_part, domain) ==
    [t |-> "EmailAddress", display_name |-> display_name,
     local_part |-> local_part, domain |-> domain]
UrlAddress(address) == [t |-> "UrlAddress", address |-> address]
AddressList(container) == [t |-> "AddressList", container |-> container]

IsEmailAddress(v) == v.t = "EmailAddress"
IsUrlAddress(v) == v.t = "UrlAddress"

\* EmailAddress(display_name=, local_part=, domain=): the constructor called
\* with neither raw_display_name nor raw_addr_spec.
EmailAddress_init(display_name, local_part, domain) ==
    IF local_part # "" /\ domain # ""
    THEN EmailAddress(IF display_name # "" THEN display_name ELSE "",
                      local_part, domain)
    ELSE Raise("SyntaxError")

\* UrlAddress(address=): the constructor called without raw.
UrlAddress_init(address) ==
    IF address # "" THEN UrlAddress(address) ELSE Raise("SyntaxError")

\* Python's truth value of an object: None, empty strings and sequences and
\* zero are false; AddressList has __len__; the address classes define
\* neither __nonzero__ nor __len__ and are always true.
Truthy(v) ==
    CASE v.t = "None" -> FALSE
      [] v.t = "str" -> PyLen(v) > 0
      [] v.t = "list" -> Len(v.items) > 0
      [] v.t = "tuple" -> Len(v.items) > 0
      [] v.t = "AddressList" -> Len(v.container) > 0
      [] v.t = "int" -> v.n # 0
      [] v.t = "bool" -> v.b
      [] OTHER -> TRUE

LiftOne(tree) ==
    CASE tree.k = "Mailbox" ->
             EmailAddress_init(smart_unquote(tree.display_name),
                               tree.local_part, tree.domain)
      [] tree.k = "Url" -> UrlAddress_init(tree.address)
      [] OTHER -> None

\* The AddressList of the lifted elements, unless building one of them raised.
ListOfLifted(lifted) ==
    IF \E i \in 1..Len(lifted) : IsRaise(lifted[i])
    THEN Raise("SyntaxError")
    ELSE AddressList(lifted)

\* _lift_parser_result: an exception raised while an element is built leaves
\* the call.
lift_parser_result(tree) ==
    IF tree.k = "list"
    THEN ListOfLifted([i \in 1..Len(tree.items) |-> LiftOne(tree.items[i])])
    ELSE LiftOne(tree)

\* ------------------------------------------------- parsing orchestration

\* One invocation of an external collaborator: the tokenizer template's
\* clone(), the grammar engine (with the grammar g), the preparser, the MX
\* lookup, the plugin registry, a plugin.
Call(c, g, arg) == [c |-> c, g |-> g, arg |-> arg]
Clone == Call("clone", "", None)

\* What a function body does: the tuple it returns (or the exception it
\* raises), the collaborators it invoked, in order, and the warnings it logged.
Out(rv, calls, log) == [rv |-> rv, calls |-> calls, log |-> log]

\* flanker.utils.metrics_wrapper, as its callers here use it: with
\* metrics=True the whole tuple is returned, otherwise the tuple without its
\* last element, and that element alone when one is left.
metrics_wrapper(rv, metrics) ==
    IF IsRaise(rv) THEN rv
    ELSE IF metrics THEN rv
    ELSE IF Len(rv.items) - 1 = 1 THEN rv.items[1]
    ELSE Tuple(SubSeq(rv.items, 1, Len(rv.items) - 1))

ParseWarning(exc) ==
    IF exc = "LexError" THEN "error in lexing" ELSE "error in parsing"

\* Except clauses without the one for SyntaxError.
Caught_NoSyntaxError(exc) == exc \in {"LexError", "YaccError"}

\* The except clauses of parse and parse_discrete_list.
Caught(exc) == exc \in {"LexError", "YaccError", "SyntaxError"}

\* The try block of parse and parse_discrete_list: the engine, then the lift.
LiftOrRaise(tree) ==
    IF IsEngineError(tree) THEN Raise(tree.k) ELSE lift_parser_result(tree)

ParseAndLift(grammar, bytes) == LiftOrRaise(EngineParse(grammar, bytes.toks))

NoResult == Tuple(<<None, [parsing |-> 0]>>)

\* How parse and parse_discrete_list end once the try block has run: retval is
\* what it gave, dt the time it took.
AfterTry(retval, calls, dt) ==
    IF IsRaise(retval) /\ Caught(retval.exc)
    THEN Out(NoResult, calls, <<ParseWarning(retval.exc)>>)
    ELSE IF IsRaise(retval) THEN Out(retval, calls, <<>>)
    ELSE Out(Tuple(<<retval, [parsing |-> dt]>>), calls, <<>>)

\* parse and parse_discrete_list from their sanity checks on: bytes is the
\* input as a byte string.
Checked(bytes, grammar, ceiling, warning, dt) ==
    IF ~Truthy(bytes) THEN Out(NoResult, <<Clone>>, <<>>)
    ELSE IF PyLen(bytes) > ceiling THEN Out(NoResult, <<Clone>>, <<warning>>)
    ELSE AfterTry(ParseAndLift(grammar, bytes),
                  <<Clone, Call("engine", grammar, bytes)>>, dt)

\* A normalization that leaves unicode input as it is.
Normalized_Skipped(s) == s

\* normalize inputs to bytestrings
Normalized(s) == IF IsUnicode(s) THEN EncodeUtf8(s) ELSE s

\* parse(address, addr_spec_only): dt is the time the try block takes.
parse(address, addr_spec_only, dt) ==
    Checked(Normalized(address),
            IF addr_spec_only THEN "addr_spec" ELSE "mailbox_or_url",
            MAX_ADDRESS_LENGTH, "address exceeds maximum length", dt)

\* parse_discrete_list(address_list)
parse_discrete_list(address_list, dt) ==
    Checked(Normalized(address_list), "mailbox_or_url_list",
            MAX_ADDRESS_LIST_LENGTH, "address list exceeds maximum length", dt)

\* What one pass of parse_list's loop leaves: what it appended to parsed and
\* to unparsed, what it added to mtimes['parsing'], its calls and warnings,
\* and the exception that left it, if one did.
ItemOut(parsed, unparsed, parsing, calls, log, raised) ==
    [parsed |-> parsed, unparsed |-> unparsed, parsing |-> parsing,
     calls |-> calls, log |-> log, raised |-> raised]

\* A loop body that drops the strings parse returns nothing for.
StringItem_DropsFailures(address, o, r) ==
    IF IsRaise(r) THEN ItemOut(<<>>, <<>>, 0, o.calls, o.log, <<r>>)
    ELSE IF Truthy(r.items[1])
    THEN ItemOut(<<r.items[1]>>, <<>>, r.items[2].parsing, o.calls, o.log, <<>>)
    ELSE ItemOut(<<>>, <<>>, r.items[2].parsing, o.calls, o.log, <<>>)

\* The loop body for a string: o is what parse did, r the (retval, metrics)
\* it returned.
StringItem(address, o, r) ==
    IF IsRaise(r) THEN ItemOut(<<>>, <<>>, 0, o.calls, o.log, <<r>>)
    ELSE IF Truthy(r.items[1])
    THEN ItemOut(<<r.items[1]>>, <<>>, r.items[2].parsing, o.calls, o.log, <<>>)
    ELSE ItemOut(<<>>, <<address>>, r.items[2].parsing, o.calls, o.log, <<>>)

ParsedString(address, o) == StringItem(address, o, metrics_wrapper(o.rv, TRUE))

\* One pass of parse_list's loop body over one item.
ParseListItem(address, dt) ==
    IF IsStr(address) THEN ParsedString(address, parse(address, FALSE, dt))
    ELSE IF IsEmailAddress(address) \/ IsUrlAddress(address)
    THEN ItemOut(<<address>>, <<>>, 0, <<>>, <<>>, <<>>)
    ELSE ItemOut(<<>>, <<address>>, 0, <<>>,
                 <<"couldnt attempt to parse address list item">>, <<>>)

\* A loop that puts each item before those already handled.
Both_Prepending(l, r) ==
    ItemOut(r.parsed \o l.parsed, r.unparsed \o l.unparsed,
            l.parsing + r.parsing, l.calls \o r.calls, l.log \o r.log,
            l.raised \o r.raised)

\* Two runs of passes, one after the other.
Both(l, r) ==
    ItemOut(l.parsed \o r.parsed, l.unparsed \o r.unparsed,
            l.parsing + r.parsing, l.calls \o r.calls, l.log \o r.log,
            l.raised \o r.raised)

\* parse_list's loop over a list: the items are handled one after the other,
\* and each appends to parsed or to unparsed, adds to mtimes['parsing'], and
\* leaves its calls and warnings; the halves of the list are folded in order.
\* raised holds the exceptions that left parse: the first one ends the loop.
RECURSIVE ParseListLoop(_, _)
ParseListLoop(items, dt) ==
    IF Len(items) = 0 THEN ItemOut(<<>>, <<>>, 0, <<>>, <<>>, <<>>)
    ELSE IF Len(items) = 1 THEN ParseListItem(items[1], dt)
    ELSE Both(ParseListLoop(SubSeq(items, 1, Len(items) \div 2), dt),
              ParseListLoop(SubSeq(items, Len(items) \div 2 + 1, Len(items)), dt))

\* The return statement of parse_list.
ParseListReturn(parsed, unparsed, mtimes, as_tuple) ==
    IF as_tuple THEN Tuple(<<parsed, PyList(unparsed), mtimes>>)
    ELSE Tuple(<<parsed, mtimes>>)

\* parse_list after its loop over a list.
AfterLoop(l, strictlog, as_tuple) ==
    IF l.raised # <<>> THEN Out(l.raised[1], l.calls, strictlog \o l.log)
    ELSE Out(ParseListReturn(AddressList(l.parsed), l.unparsed,
                             [parsing |-> l.parsing], as_tuple),
             l.calls, strictlog \o l.log)

\* parse_list after parse_discrete_list: o is what that call did, r the
\* (retval, metrics) it returned.
AfterDiscrete(address_list, o, r, strictlog, as_tuple) ==
    IF IsRaise(r) THEN Out(r, o.calls, strictlog \o o.log)
    ELSE IF Truthy(r.items[1])
    THEN Out(ParseListReturn(r.items[1], <<>>,
                             [parsing |-> r.items[2].parsing], as_tuple),
             o.calls, strictlog \o o.log)
    ELSE Out(ParseListReturn(AddressList(<<>>), <<address_list>>,
                             [parsing |-> r.items[2].parsing], as_tuple),
             o.calls, strictlog \o o.log)

DiscreteParsed(address_list, o, strictlog, as_tuple) ==
    AfterDiscrete(address_list, o, metrics_wrapper(o.rv, TRUE), strictlog, as_tuple)

\* parse_list after the warning about strict.
ParseListBody(address_list, strictlog, as_tuple, dt) ==
    IF ~Truthy(address_list)
    THEN Out(ParseListReturn(AddressList(<<>>), <<>>, [parsing |-> 0], as_tuple),
             <<>>, strictlog)
    ELSE IF IsList(address_list) /\ Len(address_list.items) > MAX_ADDRESS_NUMBER
    THEN Out(ParseListReturn(AddressList(<<>>), <<address_list>>,
                             [parsing |-> 0], as_tuple),
             <<>>, strictlog \o <<"address list exceeds maximum items">>)
    ELSE IF IsList(address_list)
    THEN AfterLoop(ParseListLoop(address_list.items, dt), strictlog, as_tuple)
    ELSE IF IsStr(address_list) /\ PyLen(address_list) > MAX_ADDRESS_LIST_LENGTH
    THEN Out(ParseListReturn(AddressList(<<>>), <<address_list>>,
                             [parsing |-> 0], as_tuple),
             <<>>, strictlog \o <<"address list exceeds maximum length">>)
    ELSE IF IsStr(address_list)
    THEN DiscreteParsed(address_list, parse_discrete_list(address_list, dt),
                        strictlog, as_tuple)
    ELSE Out(ParseListReturn(AddressList(<<>>), <<address_list>>,
                             [parsing |-> 0], as_tuple),
             <<>>, strictlog \o <<"couldnt attempt to parse address list">>)

\* parse_list(address_list, strict, as_tuple)
parse_list(address_list, strict, as_tuple, dt) ==
    ParseListBody(address_list,
                  IF strict THEN <<"strict parsing has been removed, ignoring">>
                  ELSE <<>>,
                  as_tuple, dt)

\* ---------------------------------------------------- validation pipeline

Exchanger(name) == [t |-> "exchanger", name |-> name]
Plugin(name) == [t |-> "plugin", name |-> name]
\* What preparse_address returns when it returns parts: [local_part, domain].
Parts(local_part, domain) ==
    PyList(<<Bytes(<<local_part>>), Bytes(<<domain>>)>>)

\* '@'.join(addr_parts)
JoinAt(addr_parts) ==
    Bytes(addr_parts.items[1].toks \o <<"@">> \o addr_parts.items[2].toks)

\* What mail_exchanger_lookup returns besides the exchanger.
MxMetrics ==
    {[mx_lookup |-> 0, dns_lookup |-> 0, mx_conn |-> 0],
     [mx_lookup |-> 1, dns_lookup |-> 2, mx_conn |-> 3]}

\* What the collaborators of the MX and plugin stages answer for one
\* address: exch and mxm by mail_exchanger_lookup, plugin by plugin_for_esp,
\* verdict by plugin.validate; dtc is the time the timed section of the
\* plugin stage takes.  A collaborator that is not asked answers nothing.
LookupAnswers ==
    {e \in [exch : {None, Exchanger("mx1")}, mxm : MxMetrics,
            plugin : {None, Plugin("p1")},
            verdict : {None, PyBool(TRUE), PyBool(FALSE)}, dtc : Elapsed] :
        /\ e.exch = None => e.plugin = None
        /\ e.plugin = None => e.verdict = None
        /\ e.exch = None => e.dtc = 0}

PreAnswers ==
    {None, Parts("a", "b.com"), Parts("e'", "B.com"), Parts("?", "b.com")}

\* What the collaborators answer during one call of validate_address: pre
\* by preparse_address, dtp is the time the grammar parse takes, the rest
\* as in LookupAnswers.
Envs ==
    {[pre |-> pre, dtp |-> dtp, exch |-> e.exch, mxm |-> e.mxm,
      plugin |-> e.plugin, verdict |-> e.verdict, dtc |-> e.dtc] :
        pre \in PreAnswers \ {None}, dtp \in Elapsed, e \in LookupAnswers}
    \cup {[pre |-> None, dtp |-> 0, exch |-> None,
           mxm |-> [mx_lookup |-> 0, dns_lookup |-> 0, mx_conn |-> 0],
           plugin |-> None, verdict |-> None, dtc |-> 0]}

ZeroMetrics ==
    [parsing |-> 0, mx_lookup |-> 0, dns_lookup |-> 0, mx_conn |-> 0,
     custom_grammar |-> 0]

\* The tests that end validate_address early.
NoParts(addr_parts) == addr_parts = None
NoAddress(paddr) == paddr = None

\* A validate_address that goes on to the plugin stage without an exchanger.
NoExchanger_Ignored(exchanger) == FALSE

NoExchanger(exchanger) == exchanger = None

\* A plugin test that takes every false answer, not only False, as a rejection.
PluginRejects_AnyFalse(plugin, verdict) == Truthy(plugin) /\ ~Truthy(verdict)

\* plugin and plugin.validate(local_part) is False
PluginRejects(plugin, verdict) == Truthy(plugin) /\ verdict = PyBool(FALSE)

\* The calls of the plugin stage: the registry, then the plugin if there is one.
PluginCalls(exchanger, plugin, local_part) ==
    <<Call("plugin_for_esp", "", exchanger)>>
    \o (IF Truthy(plugin) THEN <<Call("plugin.validate", "", local_part)>>
        ELSE <<>>)

\* A return without an address that hands back the record of parse alone.
Fail_ParsingOnly(mtimes, calls, log) ==
    Out(Tuple(<<None, [parsing |-> mtimes.parsing]>>), calls, log)

\* validate_address's return without an address.
Fail(mtimes, calls, log) == Out(Tuple(<<None, mtimes>>), calls, log)

\* mtimes after the MX lookup reported mxm.
WithLookup(mtimes, mxm) ==
    [mtimes EXCEPT !.mx_lookup = mxm.mx_lookup, !.dns_lookup = mxm.dns_lookup,
                   !.mx_conn = mxm.mx_conn]

\* A plugin stage that returns the address whatever the plugin answers.
PluginStage_NoCheck(addr_parts, paddr, env, mtimes, calls, log) ==
    Out(Tuple(<<paddr, mtimes>>), calls, log)

\* validate_address from the plugin stage on.
PluginStage(addr_parts, paddr, env, mtimes, calls, log) ==
    IF PluginRejects(env.plugin, env.verdict) THEN Fail(mtimes, calls, log)
    ELSE Out(Tuple(<<paddr, mtimes>>), calls, log)

\* validate_address from the MX lookup on.
LookupStage(addr_parts, paddr, env, mtimes, calls, log) ==
    IF NoExchanger(env.exch) THEN Fail(mtimes, calls, log)
    ELSE PluginStage(addr_parts, paddr, env,
                     [mtimes EXCEPT !.custom_grammar = env.dtc],
                     calls \o PluginCalls(env.exch, env.plugin, addr_parts.items[1]),
                     log)

\* validate_address after its call of parse: o is what parse did, paddr what
\* it returned.
ParseStage(addr_parts, o, paddr, env, mtimes, calls) ==
    IF IsRaise(paddr) THEN Out(paddr, calls \o o.calls, o.log)
    ELSE IF NoAddress(paddr) THEN Fail(mtimes, calls \o o.calls, o.log)
    ELSE LookupStage(addr_parts, paddr, env, WithLookup(mtimes, env.mxm),
                     calls \o o.calls
                        \o <<Call("mail_exchanger_lookup", "", addr_parts.items[2])>>,
                     o.log)

Parsed(addr_parts, o, env, mtimes, calls) ==
    ParseStage(addr_parts, o, metrics_wrapper(o.rv, FALSE), env, mtimes, calls)

\* validate_address(addr_spec)
validate_address(addr_spec, env) ==
    IF addr_spec = None THEN Fail(ZeroMetrics, <<>>, <<>>)
    ELSE IF NoParts(env.pre)
    THEN Fail(ZeroMetrics, <<Call("preparse_address", "", addr_spec)>>, <<>>)
    ELSE Parsed(env.pre, parse(JoinAt(env.pre), TRUE, env.dtp), env,
                [ZeroMetrics EXCEPT !.parsing = env.dtp],
                <<Call("preparse_address", "", addr_spec)>>)

\* ------------------------------------------------- EmailAddress encoders

\* domain.encode('idna'): the ASCII-compatible form of a lower-cased domain.
idna_encode(a) == IF a = "e'.com" THEN "xn--9ca.com" ELSE a

\* flanker.mime encode_string: a MIME encoded word for a non-ASCII name.
encode_string(a) == IF a = "e'" THEN "=?utf-8?b?w6k=?=" ELSE a

\* flanker.addresslib.quote.smart_quote: nothing to quote in these names.
smart_quote(a) == a

requires_non_ascii(e) == ~is_pure_ascii(e.local_part)

to_unicode(e) ==
    IF e.display_name # ""
    THEN Unicode(<<e.display_name, " <", e.local_part, "@", e.domain, ">">>)
    ELSE Unicode(<<e.local_part, "@", e.domain>>)

\* An encoder that leaves the domain in the case it was given.
to_ace_DomainAsIs(e) ==
    IF ~is_pure_ascii(e.local_part) THEN Raise("ValueError")
    ELSE LET ace_domain == idna_encode(e.domain)
         IN IF e.display_name # ""
            THEN Unicode(<<smart_quote(encode_string(e.display_name)), " <",
                           e.local_part, "@", ace_domain, ">">>)
            ELSE Unicode(<<e.local_part, "@", ace_domain>>)

to_ace(e) ==
    IF ~is_pure_ascii(e.local_part) THEN Raise("ValueError")
    ELSE LET ace_domain == idna_encode(Lower(e.domain))
         IN IF e.display_name # ""
            THEN Unicode(<<smart_quote(encode_string(e.display_name)), " <",
                           e.local_part, "@", ace_domain, ">">>)
            ELSE Unicode(<<e.local_part, "@", ace_domain>>)

\* A full_spec that asks for the ASCII-compatible form of every address.
full_spec_AlwaysAce(addr) ==
    IF IsUrlAddress(addr) THEN Unicode(<<addr.address>>)
    ELSE LET ace == to_ace(addr)
         IN IF IsRaise(ace) THEN ace ELSE EncodeUtf8(ace)

\* EmailAddress.full_spec and UrlAddress.full_spec
full_spec(addr) ==
    IF IsUrlAddress(addr) THEN Unicode(<<addr.address>>)
    ELSE IF requires_non_ascii(addr) THEN EncodeUtf8(to_unicode(addr))
    ELSE LET ace == to_ace(addr)
         IN IF IsRaise(ace) THEN ace ELSE EncodeUtf8(ace)

\* A first loop that keys a rejected address by its unicode form.
RejectKey_Unicode(paddr) == to_unicode(paddr)

\* What validate_list's first loop appends to ulist for a rejected address.
RejectKey(paddr) == full_spec(paddr)

\* Reading paddr.domain and paddr.local_part: UrlAddress has neither.
HasEmailFields(addr) == IsEmailAddress(addr)

\* ------------------------------------------------------ address objects

\* unicode.lower()
LowerStr(s) == Str(s.uni, [i \in 1..Len(s.toks) |-> Lower(s.toks[i])])

\* EmailAddress.address: derived on every read, the domain lower-cased.
EmailAddress_address(e) == Unicode(<<e.local_part, "@", Lower(e.domain)>>)

\* hash of a string: the same for the same text, and no two texts here
\* share one.
Hash(s) == [t |-> "hash", of |-> s.toks]

\* EmailAddress.__hash__ and UrlAddress.__hash__
EmailAddress_hash(e) == Hash(LowerStr(EmailAddress_address(e)))
UrlAddress_hash(u) == Hash(Unicode(<<u.address>>))

\* other.address, for the operand of __eq__
HasAddress(v) == IsEmailAddress(v) \/ IsUrlAddress(v)
AddressOf(v) == IF IsEmailAddress(v) THEN EmailAddress_address(v) ELSE Unicode(<<v.address>>)

\* A comparison of the addresses as they are read, not lower-cased.
EqOther_AsRead(self, other, calls, log) ==
    IF IsRaise(other) THEN Out(other, calls, log)
    ELSE IF ~Truthy(other) THEN Out(PyBool(FALSE), calls, log)
    ELSE IF ~HasAddress(other) THEN Out(Raise("AttributeError"), calls, log)
    ELSE Out(PyBool(EmailAddress_address(self).toks = AddressOf(other).toks),
             calls, log)

\* EmailAddress.__eq__ from `if other:` on.
EqOther(self, other, calls, log) ==
    IF IsRaise(other) THEN Out(other, calls, log)
    ELSE IF ~Truthy(other) THEN Out(PyBool(FALSE), calls, log)
    ELSE IF ~HasAddress(other) THEN Out(Raise("AttributeError"), calls, log)
    ELSE Out(PyBool(LowerStr(EmailAddress_address(self)).toks
                       = LowerStr(AddressOf(other)).toks),
             calls, log)

\* EmailAddress.__eq__ after parse(other): o is what parse did.
EqParsed(self, o) == EqOther(self, metrics_wrapper(o.rv, FALSE), o.calls, o.log)

\* EmailAddress.__eq__(other)
EmailAddress_eq(self, other) ==
    IF IsStr(other) THEN EqParsed(self, parse(other, FALSE, 0))
    ELSE EqOther(self, other, <<>>, <<>>)

\* The properties of EmailAddress; mailbox and hostname log a deprecation
\* notice.
Property(e, name) ==
    CASE name = "display_name" -> Out(Unicode(<<e.display_name>>), <<>>, <<>>)
      [] name = "local_part" -> Out(Unicode(<<e.local_part>>), <<>>, <<>>)
      [] name = "domain" -> Out(Unicode(<<e.domain>>), <<>>, <<>>)
      [] name = "address" -> Out(EmailAddress_address(e), <<>>, <<>>)
      [] name = "mailbox" ->
            Out(Unicode(<<e.local_part>>), <<>>, <<"deprecation notice">>)
      [] name = "hostname" ->
            Out(Unicode(<<Lower(e.domain)>>), <<>>, <<"deprecation notice">>)

\* A setter that assigns to the local part.
display_name_setter_WrongField(e, display_name) ==
    [e EXCEPT !.local_part = display_name]

\* The setter of display_name.
display_name_setter(e, display_name) == [e EXCEPT !.display_name = display_name]

\* The text of a constructor's keyword argument, "" for None and ''.
AtomOf(v) == IF v = None \/ v.toks = <<>> THEN "" ELSE v.toks[1]

\* The raw modes of EmailAddress.__init__ once the engine has answered:
\* its error leaves the constructor, its mailbox is taken as it is.
FromAddrSpec(tree, display_name, calls) ==
    IF IsEngineError(tree) THEN Out(Raise(tree.k), calls, <<>>)
    ELSE Out(EmailAddress(smart_unquote(display_name), tree.local_part,
                          tree.domain), calls, <<>>)

FromMailbox(tree, calls) ==
    IF IsEngineError(tree) THEN Out(Raise(tree.k), calls, <<>>)
    ELSE Out(EmailAddress(smart_unquote(tree.display_name), tree.local_part,
                          tree.domain), calls, <<>>)

\* EmailAddress.__init__(raw_display_name, raw_addr_spec, display_name,
\* local_part, domain): the instance, or the exception and no instance.
EmailAddress_new(raw_display_name, raw_addr_spec, display_name, local_part,
                 domain) ==
    IF Truthy(raw_display_name) /\ Truthy(raw_addr_spec)
    THEN FromAddrSpec(EngineParse("addr_spec", Normalized(raw_addr_spec).toks),
                      AtomOf(raw_display_name),
                      <<Clone, Call("engine", "addr_spec",
                                    Normalized(raw_addr_spec))>>)
    ELSE IF Truthy(raw_display_name)
    THEN FromMailbox(EngineParse("mailbox", Normalized(raw_display_name).toks),
                     <<Clone, Call("engine", "mailbox",
                                   Normalized(raw_display_name))>>)
    ELSE IF Truthy(raw_addr_spec)
    THEN FromAddrSpec(EngineParse("addr_spec", Normalized(raw_addr_spec).toks),
                      "",
                      <<Clone, Call("engine", "addr_spec",
                                    Normalized(raw_addr_spec))>>)
    ELSE Out(EmailAddress_init(AtomOf(display_name), AtomOf(local_part),
                               AtomOf(domain)), <<>>, <<>>)

FromUrl(tree, calls) ==
    IF IsEngineError(tree) THEN Out(Raise(tree.k), calls, <<>>)
    ELSE Out(UrlAddress(tree.address), calls, <<>>)

\* UrlAddress.__init__(raw, address)
UrlAddress_new(raw, address) ==
    IF Truthy(raw)
    THEN FromUrl(EngineParse("url", Normalized(raw).toks),
                 <<Clone, Call("engine", "url", Normalized(raw))>>)
    ELSE Out(UrlAddress_init(AtomOf(address)), <<>>, <<>>)

\* UrlAddress.__eq__ and EmailAddress.__eq__ between two address objects.
ElementEq(x, y) ==
    IF IsEmailAddress(x) THEN EqOther(x, y, <<>>, <<>>).rv.b
    ELSE <<x.address>> = AddressOf(y).toks

\* __hash__ of an element of a container.
ElementHash(x) ==
    IF IsEmailAddress(x) THEN EmailAddress_hash(x) ELSE UrlAddress_hash(x)

\* x in set(container): an element with the same hash that is equal to x.
InSet(x, container) ==
    \E j \in 1..Len(container) :
        ElementHash(x) = ElementHash(container[j]) /\ ElementEq(x, container[j])

\* A comparison of the containers as lists, element by element.
SetEq_InOrder(a, b) ==
    /\ Len(a) = Len(b)
    /\ \A i \in 1..Len(a) : ElementEq(a[i], b[i])

\* set(a) == set(b)
SetEq(a, b) ==
    /\ \A i \in 1..Len(a) : InSet(a[i], b)
    /\ \A j \in 1..Len(b) : InSet(b[j], a)

\* AddressList.__eq__ from its return statement on.
ListEqOther(self, other, calls, log) ==
    IF IsRaise(other) THEN Out(other, calls, log)
    ELSE IF other.t # "AddressList" THEN Out(Raise("AttributeError"), calls, log)
    ELSE Out(PyBool(SetEq(self.container, other.container)), calls, log)

ListEqParsed(self, o) ==
    ListEqOther(self, metrics_wrapper(o.rv, FALSE), o.calls, o.log)

\* AddressList.__eq__(other)
AddressList_eq(self, other) ==
    IF other.t = "list" \/ IsStr(other)
    THEN ListEqParsed(self, parse_list(other, FALSE, FALSE, 0))
    ELSE ListEqOther(self, other, <<>>, <<>>)

\* What AddressList.__add__ leaves: the list it returns, the collaborators
\* it invoked, and its operands as they are after the call.
Sum(rv, calls, log, self, other) ==
    [rv |-> rv, calls |-> calls, log |-> log, self |-> self, other |-> other]

\* AddressList.__add__ once the operand is a parsed list or the operand as
\* given: self.container + other.container, a new list.
Concatenated(self, other, parsed, calls, log) ==
    IF IsRaise(parsed) THEN Sum(parsed, calls, log, self, other)
    ELSE IF parsed.t # "AddressList"
    THEN Sum(Raise("AttributeError"), calls, log, self, other)
    ELSE Sum(AddressList(self.container \o parsed.container), calls, log,
             self, other)

ConcatenatedParsed(self, other, o) ==
    Concatenated(self, other, metrics_wrapper(o.rv, FALSE), o.calls, o.log)

\* AddressList.__add__(other)
AddressList_add(self, other) ==
    IF other.t = "list"
    THEN ConcatenatedParsed(self, other, parse_list(other, FALSE, FALSE, 0))
    ELSE Concatenated(self, other, other, <<>>, <<>>)

\* ------------------------------------------------------------ the program

VARIABLES
    pc,      \* "idle" before a call, "done" after it, and where a running
             \* validate_list is: "pass1", "pass2"
    op,      \* the last call: its function and arguments
    result,  \* what the last call returned to its caller, or the exception
    calls,   \* the collaborators the last call invoked, in order
    log,     \* the warnings the last call logged, in order
    frame    \* the local variables of a running validate_list, and with
             \* them, as reported, the sum of what the MX lookups made
             \* during the call reported, and as answers what the
             \* plugin stage of each pass-1 item was answered and how long
             \* it took; after a concatenation, its
             \* operands as the call left them
VARIABLE
    obj      \* the address object the caller built and holds, if any
VARIABLES
    threads,     \* callers that run concurrently: for each the entry point it
                 \* is in, what that call has still to do with the tokenizer
                 \* and the grammar engine, and its local variable lexer
    tokenizers,  \* the tokenizers cloned from the template so far, each
                 \* with the thread whose call cloned it
    passed       \* what the grammar engine was passed as its tokenizer, and
                 \* by which thread and which of its uses of the engine

vars == <<pc, op, result, calls, log, frame, obj, threads, tokenizers, passed>>

\* The part of the state that one caller alone leaves as it is.
cvars == <<threads, tokenizers, passed>>

Threads == 1..MaxThreads

\* flanker.addresslib.lexer.lexer, the template, and lexer.clone()
Tokenizer(id) == [t |-> "tokenizer", id |-> id]
Template == Tokenizer(0)

\* A thread that is in no entry point: before its call with fn "none",
\* after it with fn "returned".
Idle(fn) ==
    [fn |-> fn, todo |-> <<>>, lexer |-> None,
     parsed_addresses |-> <<>>, unparseable |-> <<>>, uses |-> 0]

NoFrame == [t |-> "None"]
Running == [t |-> "running"]

\* The strings the entry points are called with.
SingleTexts ==
    {Bytes(<<>>), Unicode(<<>>),
     Bytes(<<"a", "@", "b.com">>), Unicode(<<"e'", "@", "B.com">>),
     Bytes(<<"N", " <", "a", "@", "B.com", ">">>),
     Bytes(<<"http://h">>),
     Bytes(<<"?">>), Bytes(<<"a", "^">>), Bytes(<<"%">>),
     Bytes(<<"a", "@", "">>),
     Bytes(<<"ax1018", "@", "b.com">>), Bytes(<<"ax1019", "@", "b.com">>),
     Unicode(<<"e'x509", "@", "b.com">>), Unicode(<<"e'x510", "@", "b.com">>)}

ListTexts ==
    {Bytes(<<>>),
     Bytes(<<"a", "@", "b.com", ",", "N", " <", "a", "@", "B.com", ">">>),
     Bytes(<<"a", "@", "b.com", ",", "http://h">>),
     Bytes(<<"a", "@", "b.com", ",", "?">>),
     Bytes(<<"a", "@", "b.com", ",", "a", "@", "">>),
     Bytes(<<"a", "^">>), Bytes(<<"%">>), Bytes(<<" ">>),
     Bytes(<<"?x1048576">>), Bytes(<<"?x1048577">>),
     Unicode(<<"e'x524289">>)}

\* The items of the lists parse_list is called with.
Items ==
    {Bytes(<<"a", "@", "b.com">>), Unicode(<<"e'", "@", "B.com">>),
     Bytes(<<"?">>), Bytes(<<>>),
     EmailAddress("N", "a", "B.com"), UrlAddress("http://h"),
     PyInt(7), None}

\* The items of the lists validate_list is called with.
ValidateItems ==
    {Bytes(<<"?">>), EmailAddress("N", "a", "B.com"), UrlAddress("http://h")}

ListsOf(S) == UNION {[1..n -> S] : n \in 0..MaxItems}

\* Lists at and over the ceiling on the number of items, of one item repeated.
LongLists(S) ==
    {[i \in 1..n |-> x] : n \in {MAX_ADDRESS_NUMBER, MAX_ADDRESS_NUMBER + 1},
                          x \in S}

ParseListInputs ==
    {PyList(l) : l \in ListsOf(Items)}
    \cup {PyList(l) : l \in LongLists({Bytes(<<"a", "@", "b.com">>), PyInt(7)})}
    \cup ListTexts \cup {None, PyInt(7)}

ValidateListInputs ==
    {PyList(l) : l \in ListsOf(ValidateItems)}
    \cup {PyList(<<Bytes(<<"a", "@", "b.com">>)>>),
          PyList(<<Bytes(<<"N", " <", "a", "@", "B.com", ">">>)>>)}
    \cup {PyList([i \in 1..(MAX_ADDRESS_NUMBER + 1) |-> Bytes(<<"a", "@", "b.com">>)])}
    \cup {Bytes(<<"a", "@", "b.com", ",", "N", " <", "a", "@", "B.com", ">">>),
          Bytes(<<"a", "@", "b.com", ",", "?">>), Bytes(<<>>), None}

Init ==
    /\ pc = "idle"
    /\ op = [fn |-> "none"]
    /\ result = None
    /\ calls = <<>>
    /\ log = <<>>
    /\ frame = NoFrame
    /\ obj = None
    /\ threads = [t \in Threads |-> Idle("none")]
    /\ tokenizers = <<>>
    /\ passed = {}

\* A call that runs to its end in one step.
Finish(o, metrics) ==
    /\ result' = metrics_wrapper(o.rv, metrics)
    /\ calls' = o.calls
    /\ log' = o.log
    /\ pc' = "done"
    /\ frame' = NoFrame
    /\ UNCHANGED obj
    /\ UNCHANGED cvars

Parse ==
    /\ pc = "idle"
    /\ \E address \in SingleTexts \cup {None}, addr_spec_only \in BOOLEAN,
          metrics \in BOOLEAN, dt \in Elapsed :
          /\ op' = [fn |-> "parse", address |-> address,
                    addr_spec_only |-> addr_spec_only, metrics |-> metrics]
          /\ Finish(parse(address, addr_spec_only, dt), metrics)

ParseDiscreteList ==
    /\ pc = "idle"
    /\ \E address_list \in ListTexts \cup {None}, metrics \in BOOLEAN,
          dt \in Elapsed :
          /\ op' = [fn |-> "parse_discrete_list", address_list |-> address_list,
                    metrics |-> metrics]
          /\ Finish(parse_discrete_list(address_list, dt), metrics)

ParseList ==
    /\ pc = "idle"
    /\ \E address_list \in ParseListInputs, strict \in BOOLEAN,
          as_tuple \in BOOLEAN, metrics \in BOOLEAN, dt \in Elapsed :
          /\ op' = [fn |-> "parse_list", addr_list |-> address_list,
                    strict |-> strict, as_tuple |-> as_tuple,
                    metrics |-> metrics]
          /\ Finish(parse_list(address_list, strict, as_tuple, dt), metrics)

ValidateAddress ==
    /\ pc = "idle"
    /\ \E addr_spec \in SingleTexts \cup {None}, metrics \in BOOLEAN,
          env \in Envs :
          /\ op' = [fn |-> "validate_address", addr_spec |-> addr_spec,
                    metrics |-> metrics, env |-> env]
          /\ Finish(validate_address(addr_spec, env), metrics)

\* What the MX lookups of a call reported, summed up.
NoLookup == [mx_lookup |-> 0, dns_lookup |-> 0, mx_conn |-> 0]
Plus(sum, mxm) ==
    [mx_lookup |-> sum.mx_lookup + mxm.mx_lookup,
     dns_lookup |-> sum.dns_lookup + mxm.dns_lookup,
     mx_conn |-> sum.mx_conn + mxm.mx_conn]
\* What a call of validate_address that made the calls cs had reported to it.
Reported(cs, mxm) ==
    IF \E k \in 1..Len(cs) : cs[k].c = "mail_exchanger_lookup" THEN mxm
    ELSE NoLookup

\* What the first loop of validate_list was answered for one item: the
\* exchanger, the plugin, whether the plugin answered False, and the time
\* the timed section took where the loop read the clock after it.
Answer(env) ==
    [exch |-> env.exch, plugin |-> env.plugin,
     refused |-> env.verdict = PyBool(FALSE),
     dtc |-> IF env.exch = None \/ (env.plugin # None /\ env.verdict = PyBool(FALSE))
             THEN 0 ELSE env.dtc]

\* A timing that is added to the one before.
Timed_Summed(mtimes, dtc) == [mtimes EXCEPT !.custom_grammar = @ + dtc]

\* mtimes['custom_grammar'] = time.time() - bstart
Timed(mtimes, dtc) == [mtimes EXCEPT !.custom_grammar = dtc]

\* An append that puts the new element first.
append_AtFront(container, n) == <<n>> \o container

\* AddressList.append(n), on the container
append(container, n) == Append(container, n)

\* The return statement of validate_list.
ValidateListReturn(plist, ulist, mtimes, as_tuple) ==
    IF as_tuple THEN Tuple(<<AddressList(plist), PyList(ulist), mtimes>>)
    ELSE Tuple(<<AddressList(plist), mtimes>>)

\* validate_list goes on after an item of the loop named by at: to the item
\* fr.i of that loop if there is one, from the first loop to the second, and
\* otherwise to the return statement.
GoOn(at, fr, cs, lg) ==
    /\ UNCHANGED obj
    /\ UNCHANGED cvars
    /\ calls' = cs
    /\ log' = lg
    /\ IF at = "pass1" /\ fr.i <= Len(fr.parsed_addresses)
       THEN pc' = "pass1" /\ frame' = fr /\ result' = Running
       ELSE IF at = "pass1" /\ Len(fr.unparseable) > 0
       THEN pc' = "pass2" /\ frame' = [fr EXCEPT !.i = 1] /\ result' = Running
       ELSE IF at = "pass2" /\ fr.i <= Len(fr.unparseable)
       THEN pc' = "pass2" /\ frame' = fr /\ result' = Running
       ELSE /\ pc' = "done"
            /\ frame' = fr
            /\ result' = metrics_wrapper(
                   ValidateListReturn(fr.plist, fr.ulist, fr.mtimes, fr.as_tuple),
                   fr.metrics)

\* An exception leaves validate_list.
Raised(exc) ==
    /\ pc' = "done"
    /\ result' = Raise(exc)
    /\ UNCHANGED <<calls, log, frame, obj>>
    /\ UNCHANGED cvars

\* validate_list(addr_list, as_tuple) up to its first loop: the check of the
\* empty input and the call of parse_list.
ValidateList ==
    /\ pc = "idle"
    /\ \E addr_list \in ValidateListInputs, as_tuple \in BOOLEAN,
          metrics \in BOOLEAN, dt \in Elapsed :
          /\ op' = [fn |-> "validate_list", addr_list |-> addr_list,
                    as_tuple |-> as_tuple, metrics |-> metrics]
          /\ IF ~Truthy(addr_list)
             THEN Finish(Out(Tuple(<<AddressList(<<>>), ZeroMetrics>>), <<>>, <<>>),
                         metrics)
             ELSE \E o \in {parse_list(addr_list, FALSE, TRUE, dt)} :
                  \E r \in {metrics_wrapper(o.rv, FALSE)} :
                     IF IsRaise(r) THEN Raised(r.exc)
                     ELSE
                     GoOn("pass1",
                          [as_tuple |-> as_tuple, metrics |-> metrics,
                           parsed_addresses |-> r.items[1].container,
                           unparseable |-> r.items[2].items,
                           i |-> 1, plist |-> <<>>, ulist |-> <<>>,
                           mtimes |-> [ZeroMetrics EXCEPT !.parsing = dt],
                           reported |-> NoLookup, answers |-> <<>>],
                          o.calls, o.log)

\* One pass of validate_list's first loop, over parsed_addresses[i].
Pass1Step ==
    /\ pc = "pass1"
    /\ UNCHANGED op
    /\ LET paddr == frame.parsed_addresses[frame.i]
       IN IF ~HasEmailFields(paddr) THEN Raised("AttributeError")
          ELSE \E env \in LookupAnswers :
       LET m == [frame.mtimes EXCEPT
                     !.mx_lookup = @ + env.mxm.mx_lookup,
                     !.dns_lookup = @ + env.mxm.dns_lookup,
                     !.mx_conn = @ + env.mxm.mx_conn]
           c1 == calls \o <<Call("mail_exchanger_lookup", "",
                                 Unicode(<<paddr.domain>>))>>
           c2 == c1 \o PluginCalls(env.exch, env.plugin,
                                   Unicode(<<paddr.local_part>>))
           spec == RejectKey(paddr)
           next == [frame EXCEPT !.i = @ + 1, !.mtimes = m,
                                 !.reported = Plus(@, env.mxm),
                                 !.answers = Append(@, Answer(env))]
       IN IF NoExchanger(env.exch)
          THEN IF IsRaise(spec) THEN Raised(spec.exc)
               ELSE GoOn("pass1", [next EXCEPT !.ulist = Append(@, spec)], c1, log)
          ELSE IF PluginRejects(env.plugin, env.verdict)
          THEN IF IsRaise(spec) THEN Raised(spec.exc)
               ELSE GoOn("pass1", [next EXCEPT !.ulist = Append(@, spec)], c2, log)
          ELSE GoOn("pass1",
                    [next EXCEPT !.plist = append(@, paddr),
                                 !.mtimes = Timed(@, env.dtc)],
                    c2, log)

\* One pass of validate_list's second loop, over unparseable[i].  The loop
\* that follows the test adds each value of the dictionary validate_address
\* returned to itself, and leaves mtimes as it is.
Pass2Step ==
    /\ pc = "pass2"
    /\ UNCHANGED op
    /\ \E env \in Envs :
       \E o \in {validate_address(frame.unparseable[frame.i], env)} :
       LET unpar == frame.unparseable[frame.i]
           r == metrics_wrapper(o.rv, TRUE)
           paddr == r.items[1]
           next == [frame EXCEPT !.i = @ + 1,
                                 !.reported = Plus(@, Reported(o.calls, env.mxm))]
       IN IF IsRaise(r) THEN Raised(r.exc)
          ELSE IF Truthy(paddr)
          THEN GoOn("pass2", [next EXCEPT !.plist = append(@, paddr)],
                    calls \o o.calls, log \o o.log)
          ELSE GoOn("pass2", [next EXCEPT !.ulist = Append(@, unpar)],
                    calls \o o.calls, log \o o.log)

\* The arguments EmailAddress is built with: raw text or keywords.
NoText == {None, Unicode(<<>>)}
EmailArgs ==
    [raw_display_name : {None, Bytes(<<"N">>),
                         Bytes(<<"N", " <", "a", "@", "B.com", ">">>),
                         Bytes(<<"N", " <", "a", "@", "", ">">>),
                         Bytes(<<"?">>)},
     raw_addr_spec : {None, Bytes(<<"a", "@", "b.com">>),
                      Unicode(<<"e'", "@", "B.com">>), Bytes(<<"a", "@", "">>),
                      Bytes(<<"a", "^">>)},
     display_name : {None}, local_part : {None}, domain : {None}]
    \cup
    [raw_display_name : {None}, raw_addr_spec : {None},
     display_name : {None, Unicode(<<"N">>), Unicode(<<"e'">>)},
     local_part : NoText \cup {Unicode(<<"a">>), Unicode(<<"A">>), Unicode(<<"e'">>)},
     domain : NoText \cup {Unicode(<<"b.com">>), Unicode(<<"B.com">>),
                           Unicode(<<"e'.com">>)}]

UrlArgs ==
    [raw : {None, Bytes(<<"http://h">>), Bytes(<<"?">>)}, address : {None}]
    \cup [raw : {None}, address : NoText \cup {Unicode(<<"http://h">>)}]

\* A constructor ran: the caller holds the instance, if there is one.
Built(o) ==
    /\ result' = o.rv
    /\ calls' = o.calls
    /\ log' = o.log
    /\ obj' = IF IsRaise(o.rv) THEN None ELSE o.rv
    /\ pc' = "done"
    /\ frame' = NoFrame
    /\ UNCHANGED cvars

NewEmailAddress ==
    /\ pc = "idle"
    /\ \E a \in EmailArgs :
          /\ op' = [fn |-> "EmailAddress", args |-> a]
          /\ Built(EmailAddress_new(a.raw_display_name, a.raw_addr_spec,
                                    a.display_name, a.local_part, a.domain))

NewUrlAddress ==
    /\ pc = "idle"
    /\ \E a \in UrlArgs :
          /\ op' = [fn |-> "UrlAddress", args |-> a]
          /\ Built(UrlAddress_new(a.raw, a.address))

\* The caller holds an EmailAddress and calls a method of it.
Holding == pc = "done" /\ obj # None /\ IsEmailAddress(obj)

\* A method that only reads the object returns.
Answered(o) ==
    /\ result' = o.rv
    /\ calls' = o.calls
    /\ log' = o.log
    /\ UNCHANGED <<pc, frame, obj>>
    /\ UNCHANGED cvars

\* obj.to_unicode(), obj.to_ace(), obj.full_spec()
Encode ==
    /\ Holding
    /\ \E fn \in {"to_unicode", "to_ace", "full_spec"} :
          /\ op' = [fn |-> fn]
          /\ Answered(Out(CASE fn = "to_unicode" -> to_unicode(obj)
                              [] fn = "to_ace" -> to_ace(obj)
                              [] fn = "full_spec" -> full_spec(obj),
                          <<>>, <<>>))

\* obj.display_name, obj.local_part, obj.domain, obj.address, obj.mailbox,
\* obj.hostname
Read ==
    /\ Holding
    /\ \E name \in {"display_name", "local_part", "domain", "address",
                     "mailbox", "hostname"} :
          /\ op' = [fn |-> "property", name |-> name]
          /\ Answered(Property(obj, name))

\* What an EmailAddress is compared with.
Others ==
    {EmailAddress("", "a", "b.com"), EmailAddress("N", "A", "B.com"),
     EmailAddress("", "e'", "b.com"), EmailAddress("e'", "a", "e'.com"),
     UrlAddress("http://h"), None, PyInt(7),
     Bytes(<<"a", "@", "B.com">>), Bytes(<<"?">>)}

\* obj == other
Equals ==
    /\ Holding
    /\ \E other \in Others :
          /\ op' = [fn |-> "__eq__", other |-> other]
          /\ Answered(EmailAddress_eq(obj, other))

\* hash(obj)
HashOf ==
    /\ Holding
    /\ op' = [fn |-> "__hash__"]
    /\ Answered(Out(EmailAddress_hash(obj), <<>>, <<>>))

\* obj.display_name = display_name
SetDisplayName ==
    /\ Holding
    /\ \E display_name \in {"", "N", "e'"} :
          /\ op' = [fn |-> "display_name.setter", display_name |-> display_name]
          /\ obj' = display_name_setter(obj, display_name)
          /\ result' = None
          /\ calls' = <<>>
          /\ log' = <<>>
          /\ UNCHANGED <<pc, frame>>
          /\ UNCHANGED cvars

\* The caller has its answer; the module keeps nothing of the call, and is
\* ready for the next one.
\* The elements of the AddressLists that are compared.
Elements ==
    {EmailAddress("", "a", "b.com"), EmailAddress("N", "A", "B.com"),
     UrlAddress("http://h")}

AddressLists == {AddressList(l) : l \in ListsOf(Elements)}

\* What an AddressList is compared with: AddressLists, lists of texts and
\* address objects, delimited texts, and objects of other types.
ListOthers ==
    AddressLists
    \cup {PyList(l) : l \in ListsOf({Bytes(<<"a", "@", "b.com">>), Bytes(<<"?">>),
                                     UrlAddress("http://h")})}
    \cup {Bytes(<<>>),
          Bytes(<<"a", "@", "b.com", ",", "N", " <", "a", "@", "B.com", ">">>),
          Bytes(<<"a", "@", "b.com", ",", "http://h">>),
          Bytes(<<"a", "@", "b.com", ",", "?">>),
          None, PyInt(7)}

\* self == other, for an AddressList self
ListEquals ==
    /\ pc = "idle"
    /\ \E self \in AddressLists, other \in ListOthers :
          /\ op' = [fn |-> "AddressList.__eq__", self |-> self, other |-> other]
          /\ \E o \in {AddressList_eq(self, other)} :
                /\ result' = o.rv
                /\ calls' = o.calls
                /\ log' = o.log
          /\ pc' = "done"
          /\ UNCHANGED <<frame, obj>>
          /\ UNCHANGED cvars

\* self + other, for an AddressList self
ListPlus ==
    /\ pc = "idle"
    /\ \E self \in AddressLists, other \in ListOthers :
          /\ op' = [fn |-> "AddressList.__add__", self |-> self, other |-> other]
          /\ \E o \in {AddressList_add(self, other)} :
                /\ result' = o.rv
                /\ calls' = o.calls
                /\ log' = o.log
                /\ frame' = [t |-> "operands", self |-> o.self, other |-> o.other]
          /\ pc' = "done"
          /\ UNCHANGED obj
          /\ UNCHANGED cvars

NextCall ==
    /\ pc = "done"
    /\ pc' = "idle"
    /\ op' = [fn |-> "none"]
    /\ result' = None
    /\ calls' = <<>>
    /\ log' = <<>>
    /\ frame' = NoFrame
    /\ obj' = None
    /\ UNCHANGED cvars

Next ==
    \/ Parse
    \/ ParseDiscreteList
    \/ ParseList
    \/ ValidateAddress
    \/ ValidateList
    \/ Pass1Step
    \/ Pass2Step
    \/ NewEmailAddress
    \/ NewUrlAddress
    \/ Encode
    \/ Read
    \/ Equals
    \/ HashOf
    \/ SetDisplayName
    \/ ListEquals
    \/ ListPlus
    \/ NextCall

Spec == Init /\ [][Next]_vars

\* ------------------------------------------------- concurrent callers

\* The calls that concern the tokenizer: lexer.clone() and parser.parse(...,
\* lexer=lexer).
IsTokenizerCall(c) == c.c \in {"clone", "engine"}
Collaborator(c) == c.c
TokenizerCalls(cs) ==
    [i \in 1..Len(SelectSeq(cs, IsTokenizerCall)) |->
        Collaborator(SelectSeq(cs, IsTokenizerCall)[i])]

\* clone() of the template: a tokenizer there was not before.
clone(cloned) == Tokenizer(Len(cloned) + 1)

\* A call that takes the template itself for its lexer.
NewLexer_Template(cloned) == Template

\* lexer = flanker.addresslib.lexer.lexer.clone()
NewLexer(cloned) == clone(cloned)

\* Thread t, which is in no call yet, enters fn, which has the calls cs to
\* make and, in validate_list, the two lists parse_list returned to go
\* through.
Enter(t, fn, cs, parsed_addresses, unparseable) ==
    /\ threads' = [threads EXCEPT ![t] =
                      [fn |-> fn,
                       todo |-> TokenizerCalls(cs), lexer |-> None,
                       parsed_addresses |-> parsed_addresses,
                       unparseable |-> unparseable, uses |-> 0]]
    /\ UNCHANGED <<pc, op, result, calls, log, frame, obj, tokenizers, passed>>

\* The texts and lists the concurrent callers call the entry points with.
ThreadTexts == {Bytes(<<>>), Bytes(<<"a", "@", "b.com">>), Bytes(<<"?">>)}
ThreadLists ==
    {PyList(<<EmailAddress("N", "a", "B.com"), Bytes(<<"?">>)>>),
     PyList(<<UrlAddress("http://h"), Bytes(<<"?">>)>>), PyList(<<>>)}

\* What the collaborators answer the concurrent callers; the clock plays no
\* part in what a call does with the tokenizer.
ThreadEnvs == {env \in Envs : env.dtp = 0 /\ env.dtc = 0 /\ env.mxm = NoLookup}
ThreadLookups == {e \in LookupAnswers : e.dtc = 0 /\ e.mxm = NoLookup}

ThreadParse(t) ==
    /\ threads[t].fn = "none"
    /\ \E address \in ThreadTexts, addr_spec_only \in BOOLEAN :
        Enter(t, "parse", parse(address, addr_spec_only, 0).calls, <<>>, <<>>)

ThreadParseDiscreteList(t) ==
    /\ threads[t].fn = "none"
    /\ \E address_list \in {Bytes(<<>>), Bytes(<<"a", "@", "b.com", ",", "http://h">>)} :
        Enter(t, "parse_discrete_list",
              parse_discrete_list(address_list, 0).calls, <<>>, <<>>)

ThreadValidateAddress(t) ==
    /\ threads[t].fn = "none"
    /\ \E addr_spec \in ThreadTexts, env \in ThreadEnvs :
        Enter(t, "validate_address", validate_address(addr_spec, env).calls,
              <<>>, <<>>)

\* validate_list up to its first loop.
ThreadValidateList(t) ==
    /\ threads[t].fn = "none"
    /\ \E addr_list \in ThreadLists :
        IF ~Truthy(addr_list) THEN Enter(t, "validate_list", <<>>, <<>>, <<>>)
        ELSE \E o \in {parse_list(addr_list, FALSE, TRUE, 0)} :
                Enter(t, "validate_list", o.calls,
                      o.rv.items[1].container, o.rv.items[2].items)

ThreadEmailAddress(t) ==
    /\ threads[t].fn = "none"
    /\ \E a \in {e \in EmailArgs : e.raw_display_name \in {None, Bytes(<<"N">>)}
                                 /\ e.display_name = None
                                 /\ e.domain \in {None, Unicode(<<"b.com">>)}} :
        Enter(t, "EmailAddress",
              EmailAddress_new(a.raw_display_name, a.raw_addr_spec,
                               a.display_name, a.local_part, a.domain).calls,
              <<>>, <<>>)

ThreadUrlAddress(t) ==
    /\ threads[t].fn = "none"
    /\ \E a \in UrlArgs :
        Enter(t, "UrlAddress", UrlAddress_new(a.raw, a.address).calls, <<>>, <<>>)

\* lexer = flanker.addresslib.lexer.lexer.clone()
CloneStep(t) ==
    /\ threads[t].todo # <<>>
    /\ Head(threads[t].todo) = "clone"
    /\ threads' = [threads EXCEPT ![t].todo = Tail(@),
                                  ![t].lexer = NewLexer(tokenizers)]
    /\ tokenizers' = Append(tokenizers, [thread |-> t])
    /\ UNCHANGED <<pc, op, result, calls, log, frame, obj, passed>>

\* parser.parse(..., lexer=lexer)
EngineStep(t) ==
    /\ threads[t].todo # <<>>
    /\ Head(threads[t].todo) = "engine"
    /\ passed' = passed \cup {[lexer |-> threads[t].lexer, thread |-> t,
                               use |-> threads[t].uses + 1]}
    /\ threads' = [threads EXCEPT ![t].todo = Tail(@), ![t].uses = @ + 1]
    /\ UNCHANGED <<pc, op, result, calls, log, frame, obj, tokenizers>>

\* The call of thread t returns, or an exception leaves it.
Leaves(t) ==
    /\ threads' = [threads EXCEPT ![t] = Idle("returned")]
    /\ UNCHANGED <<pc, op, result, calls, log, frame, obj, tokenizers, passed>>

\* One pass of validate_list's first loop in thread t: it reaches neither
\* the tokenizer nor the engine, and ends the call where it raises.
ThreadPass1(t) ==
    /\ threads[t].fn = "validate_list"
    /\ threads[t].todo = <<>>
    /\ threads[t].parsed_addresses # <<>>
    /\ \E env \in ThreadLookups, paddr \in {Head(threads[t].parsed_addresses)} :
          IF \/ ~HasEmailFields(paddr)
             \/ /\ NoExchanger(env.exch) \/ PluginRejects(env.plugin, env.verdict)
                /\ IsRaise(RejectKey(paddr))
          THEN Leaves(t)
          ELSE /\ threads' = [threads EXCEPT ![t].parsed_addresses = Tail(@)]
               /\ UNCHANGED <<pc, op, result, calls, log, frame, obj,
                              tokenizers, passed>>

\* One pass of validate_list's second loop in thread t, up to the calls
\* validate_address makes.
ThreadPass2(t) ==
    /\ threads[t].fn = "validate_list"
    /\ threads[t].todo = <<>>
    /\ threads[t].parsed_addresses = <<>>
    /\ threads[t].unparseable # <<>>
    /\ \E env \in ThreadEnvs :
          threads' = [threads EXCEPT
                         ![t].todo = TokenizerCalls(
                             validate_address(Head(threads[t].unparseable),
                                              env).calls),
                         ![t].unparseable = Tail(@)]
    /\ UNCHANGED <<pc, op, result, calls, log, frame, obj, tokenizers, passed>>

Return(t) ==
    /\ threads[t].fn \notin {"none", "returned"}
    /\ threads[t].todo = <<>>
    /\ threads[t].parsed_addresses = <<>>
    /\ threads[t].unparseable = <<>>
    /\ Leaves(t)

ConcurrentNext ==
    \/ \E t \in Threads : ThreadParse(t)
    \/ \E t \in Threads : ThreadParseDiscreteList(t)
    \/ \E t \in Threads : ThreadValidateAddress(t)
    \/ \E t \in Threads : ThreadValidateList(t)
    \/ \E t \in Threads : ThreadEmailAddress(t)
    \/ \E t \in Threads : ThreadUrlAddress(t)
    \/ \E t \in Threads : CloneStep(t)
    \/ \E t \in Threads : EngineStep(t)
    \/ \E t \in Threads : ThreadPass1(t)
    \/ \E t \in Threads : ThreadPass2(t)
    \/ \E t \in Threads : Return(t)

ConcurrentSpec == Init /\ [][ConcurrentNext]_vars

\* ================================================================ claims

\* The value a finished call handed to its caller besides the metrics: the
\* whole result without metrics=True, the tuple's first element with it (the
\* tuple without its last element for parse_list and validate_list called
\* with as_tuple).
Finished(fn) == pc = "done" /\ op.fn = fn
Returned == pc = "done" /\ ~IsRaise(result)
ValueOf(r, metrics) == IF metrics THEN r.items[1] ELSE r

ItemsAreAddressesOrStrings(l) ==
    \A i \in 1..Len(l) : IsStr(l[i]) \/ IsEmailAddress(l[i]) \/ IsUrlAddress(l[i])

CallsOf(c) == {i \in 1..Len(calls) : calls[i].c = c}

\* C1 (as claimed): validate_list on a list of strings, EmailAddress and
\* UrlAddress objects returns normally, and its accepted and rejected
\* collections together hold as many items as the input.
C1_ValidateListNeverAborts ==
    (Finished("validate_list") /\ IsList(op.addr_list)
       /\ ItemsAreAddressesOrStrings(op.addr_list.items))
    => /\ ~IsRaise(result)
       /\ frame # NoFrame =>
             Len(frame.plist) + Len(frame.ulist) = Len(op.addr_list.items)

\* C2 (as claimed): for every list given to parse_list, of any length,
\* len(parsed) + len(unparsed) is the number of items of the list.
C2_PartitionAnyLength ==
    (Finished("parse_list") /\ IsList(op.addr_list) /\ op.as_tuple)
    => Len(result.items[1].container) + Len(result.items[2].items)
          = Len(op.addr_list.items)

\* C2 (amended): for a list of at most MAX_ADDRESS_NUMBER items,
\* len(parsed) + len(unparsed) is the number of items; for a longer list
\* parsed is empty and unparsed holds one element, the input list itself.
C2_PartitionWithinCeiling ==
    (Finished("parse_list") /\ IsList(op.addr_list) /\ op.as_tuple)
    => IF Len(op.addr_list.items) <= MAX_ADDRESS_NUMBER
       THEN Len(result.items[1].container) + Len(result.items[2].items)
               = Len(op.addr_list.items)
       ELSE /\ result.items[1] = AddressList(<<>>)
            /\ result.items[2] = PyList(<<op.addr_list>>)

\* A list of two items, one parsed and one not.
C2_Witness ==
    /\ Finished("parse_list") /\ IsList(op.addr_list) /\ op.as_tuple
    /\ Len(op.addr_list.items) = 2
    /\ Len(result.items[1].container) = 1
    /\ Len(result.items[2].items) = 1

\* The stage of validate_address a collaborator belongs to.
Stage(c) ==
    CASE c = "preparse_address" -> 1
      [] c \in {"clone", "engine"} -> 2
      [] c = "mail_exchanger_lookup" -> 3
      [] c \in {"plugin_for_esp", "plugin.validate"} -> 4

CallsFrom(stage) == {i \in 1..Len(calls) : Stage(calls[i].c) >= stage}

\* What the collaborators answered in the last call of validate_address.
PreparseGaveParts == CallsOf("preparse_address") # {} /\ op.env.pre # None
GrammarSucceeded ==
    \E i \in CallsOf("engine") : ~IsRaise(ParseAndLift(calls[i].g, calls[i].arg))
LookupGaveExchanger ==
    CallsOf("mail_exchanger_lookup") # {} /\ op.env.exch # None
PluginRejected ==
    /\ CallsOf("plugin_for_esp") # {} /\ op.env.plugin # None
    /\ op.env.verdict = PyBool(FALSE)

\* C3: validate_address invokes its collaborators in the order preparse,
\* grammar parse, MX lookup, plugin, and those of a stage only after every
\* earlier stage succeeded: none after preparse returned None, no MX lookup
\* and no plugin after the grammar parse failed, no plugin registry and no
\* plugin after the MX lookup returned no exchanger.
C3_StagesGated ==
    Finished("validate_address") =>
       /\ \A i, j \in 1..Len(calls) :
             i < j => Stage(calls[i].c) <= Stage(calls[j].c)
       /\ CallsFrom(2) # {} => PreparseGaveParts
       /\ CallsFrom(3) # {} => GrammarSucceeded
       /\ CallsFrom(4) # {} => LookupGaveExchanger
       /\ Cardinality(CallsOf("preparse_address")) <= 1
       /\ Cardinality(CallsOf("mail_exchanger_lookup")) <= 1

\* The MX lookup was the last collaborator invoked: it returned no exchanger.
C3_Witness ==
    /\ Finished("validate_address")
    /\ PreparseGaveParts /\ GrammarSucceeded
    /\ CallsOf("mail_exchanger_lookup") # {} /\ op.env.exch = None
    /\ CallsFrom(4) = {}

\* C4: validate_address returns the EmailAddress of its stage-2 parse if
\* preparse returned parts, the grammar parse succeeded, the MX lookup
\* returned an exchanger and no plugin explicitly rejected the local part;
\* in every other case it returns None.
C4_ReturnsStage2AddressIff ==
    Finished("validate_address") =>
       IF /\ PreparseGaveParts /\ GrammarSucceeded /\ LookupGaveExchanger
          /\ ~PluginRejected
       THEN \E i \in CallsOf("engine") :
               ValueOf(result, op.metrics) = ParseAndLift(calls[i].g, calls[i].arg)
       ELSE ValueOf(result, op.metrics) = None

\* A registered plugin answered None, which is no explicit rejection, and
\* the address was returned.
C4_Witness ==
    /\ Finished("validate_address")
    /\ LookupGaveExchanger
    /\ CallsOf("plugin.validate") # {} /\ op.env.verdict = None
    /\ IsEmailAddress(ValueOf(result, op.metrics))

\* What validate_list's parse_list call put in its unparsed bucket.
UnparsedBucket(addr_list) ==
    metrics_wrapper(parse_list(addr_list, FALSE, TRUE, 0).rv, FALSE).items[2].items

\* The calls a step added to those made before it.
Added == SubSeq(calls', Len(calls) + 1, Len(calls'))

\* C5: in validate_list's first pass an already-parsed address either moves
\* to the accepted list or, failing the MX lookup or the plugin check, is
\* appended to the rejected list as its full_spec text, and no preparse and
\* no grammar parse is run for it; the second pass goes through exactly the
\* items of parse_list's unparsed bucket, hands each to validate_address,
\* and appends one that fails to the rejected list as the raw item itself.
\* The rejected list returned is the one so built.
C5_RejectsKeyedAndRetried ==
    [][ /\ (pc = "idle" /\ pc' \in {"pass1", "pass2"})
           => /\ frame'.unparseable = UnparsedBucket(op'.addr_list)
              /\ frame'.plist = <<>> /\ frame'.ulist = <<>>
        /\ (pc = "pass1" /\ IsEmailAddress(frame.parsed_addresses[frame.i]))
           => /\ ~IsRaise(result')
              /\ frame'.unparseable = frame.unparseable
              /\ frame'.parsed_addresses = frame.parsed_addresses
              /\ \/ /\ frame'.plist = Append(frame.plist,
                                             frame.parsed_addresses[frame.i])
                    /\ frame'.ulist = frame.ulist
                 \/ /\ frame'.plist = frame.plist
                    /\ frame'.ulist =
                          Append(frame.ulist,
                                 full_spec(frame.parsed_addresses[frame.i]))
              /\ \A k \in 1..Len(Added) :
                    Added[k].c \notin {"preparse_address", "clone", "engine"}
        /\ (pc = "pass2" /\ ~IsRaise(result'))
           => /\ frame'.unparseable = frame.unparseable
              /\ frame'.i = frame.i + 1
              /\ \/ /\ frame'.ulist = Append(frame.ulist,
                                             frame.unparseable[frame.i])
                    /\ frame'.plist = frame.plist
                 \/ /\ frame'.ulist = frame.ulist
                    /\ Len(frame'.plist) = Len(frame.plist) + 1
                    /\ IsEmailAddress(frame'.plist[Len(frame'.plist)])
              /\ frame.unparseable[frame.i] # None
                    => /\ Added # <<>>
                       /\ Added[1] = Call("preparse_address", "",
                                          frame.unparseable[frame.i])
              /\ pc' = "done" => frame.i = Len(frame.unparseable)
        /\ (pc \in {"pass1", "pass2"} /\ pc' = "done" /\ ~IsRaise(result')
               /\ frame'.as_tuple)
           => result'.items[2] = PyList(frame'.ulist)
      ]_vars

\* validate_list returned a rejected list holding an address of the first
\* pass as its full_spec text, which is not the item given, and an item of
\* the second pass as it was given.
C5_Witness ==
    /\ Finished("validate_list") /\ Returned /\ frame # NoFrame
    /\ op.as_tuple /\ ~op.metrics
    /\ Len(frame.parsed_addresses) = 1 /\ Len(frame.unparseable) = 1
    /\ result.items[2] =
          PyList(<<full_spec(frame.parsed_addresses[1]), frame.unparseable[1]>>)
    /\ full_spec(frame.parsed_addresses[1]) # op.addr_list.items[1]

IsMetrics(x) == "parsing" \in DOMAIN x
IsAddressList(x) == "container" \in DOMAIN x

\* C6 (as claimed): for every input, the empty ones included, parse_list
\* and validate_list return the collection alone without as_tuple and the
\* pair of collections with it, and with metrics the metrics record as one
\* more, last element.
C6_ReturnShape ==
    (Returned /\ op.fn \in {"parse_list", "validate_list"})
    => IF ~op.as_tuple /\ ~op.metrics THEN IsAddressList(result)
       ELSE /\ result.t = "tuple"
            /\ Len(result.items) = (IF op.as_tuple THEN 2 ELSE 1)
                                      + (IF op.metrics THEN 1 ELSE 0)
            /\ IsAddressList(result.items[1])
            /\ op.as_tuple => IsList(result.items[2])
            /\ op.metrics => IsMetrics(result.items[Len(result.items)])

\* The length the code compares with a ceiling on text: that of the byte
\* string a unicode input is encoded to.
Utf8(s) == IF IsUnicode(s) THEN EncodeUtf8(s) ELSE s

OverLong(s, ceiling) == IsStr(s) /\ PyLen(Utf8(s)) > ceiling
TooManyItems(l) == IsList(l) /\ Len(l.items) > MAX_ADDRESS_NUMBER

\* A call whose input is over a size ceiling.
OverCeiling ==
    CASE op.fn = "parse" -> OverLong(op.address, MAX_ADDRESS_LENGTH)
      [] op.fn = "validate_address" -> OverLong(op.addr_spec, MAX_ADDRESS_LENGTH)
      [] op.fn = "parse_discrete_list" ->
            OverLong(op.address_list, MAX_ADDRESS_LIST_LENGTH)
      [] op.fn \in {"parse_list", "validate_list"} ->
            \/ TooManyItems(op.addr_list)
            \/ OverLong(op.addr_list, MAX_ADDRESS_LIST_LENGTH)
      [] OTHER -> FALSE

\* C7 (as claimed): a call on an input over a size ceiling invokes no
\* collaborator: no tokenizer clone, no grammar engine, no preparser, no MX
\* lookup, no plugin registry.
C7_CeilingsBeforeCollaborators ==
    (pc # "idle" /\ OverCeiling) => calls = <<>>

\* C8: parse returns no result for an input longer than MAX_ADDRESS_LENGTH,
\* and hands a non-empty input no longer than that to the grammar engine;
\* parse_list given a string longer than MAX_ADDRESS_LIST_LENGTH returns an
\* empty parsed collection and an unparsed list holding that string alone.
\* Lengths are those of the input as a byte string, unicode input encoded
\* as UTF-8.
C8_LengthCeilings ==
    /\ (Finished("parse") /\ IsStr(op.address))
       => /\ OverLong(op.address, MAX_ADDRESS_LENGTH)
                => ValueOf(result, op.metrics) = None
          /\ (PyLen(Utf8(op.address)) >= 1
                /\ ~OverLong(op.address, MAX_ADDRESS_LENGTH))
                => \E i \in CallsOf("engine") : calls[i].arg = Utf8(op.address)
    /\ (Finished("parse_list")
          /\ OverLong(op.addr_list, MAX_ADDRESS_LIST_LENGTH))
       => /\ ValueOf(result, op.as_tuple \/ op.metrics) = AddressList(<<>>)
          /\ op.as_tuple => result.items[2] = PyList(<<op.addr_list>>)

\* parse was given unicode text of no more than MAX_ADDRESS_LENGTH
\* characters that is longer than that as a byte string, and returned no
\* result without a call of the engine.
C8_Witness ==
    /\ Finished("parse") /\ IsUnicode(op.address)
    /\ PyLen(op.address) <= MAX_ADDRESS_LENGTH
    /\ OverLong(op.address, MAX_ADDRESS_LENGTH)
    /\ ValueOf(result, op.metrics) = None
    /\ CallsOf("engine") = {}

\* The engine, or the lift of its tree, failed in the last call.
EngineFailed ==
    \E i \in CallsOf("engine") : IsRaise(ParseAndLift(calls[i].g, calls[i].arg))

\* C9: when the grammar engine fails with a lexical, grammatical or syntax
\* error, or the lift of its tree raises a syntax error, parse and
\* parse_discrete_list do not raise: they return no result, with the
\* metrics record when metrics are asked for.
C9_EngineFailuresCaught ==
    ((Finished("parse") \/ Finished("parse_discrete_list")) /\ EngineFailed)
    => /\ ~IsRaise(result)
       /\ ValueOf(result, op.metrics) = None
       /\ op.metrics => (Len(result.items) = 2 /\ IsMetrics(result.items[2]))

\* The engine gave a tree, the lift of it raised, and parse returned no
\* result.
C9_Witness ==
    /\ Finished("parse")
    /\ \E i \in CallsOf("engine") :
          /\ ~IsEngineError(EngineParse(calls[i].g, calls[i].arg.toks))
          /\ IsRaise(ParseAndLift(calls[i].g, calls[i].arg))
    /\ ValueOf(result, op.metrics) = None

\* C10 (as claimed): a call of parse that returns no result for a malformed
\* text, be it empty, over the length ceiling or rejected by the engine,
\* has logged a warning.
C10_NoResultIsLogged ==
    (Finished("parse") /\ IsStr(op.address) /\ Returned
       /\ ValueOf(result, op.metrics) = None)
    => log # <<>>

\* What parse_discrete_list got from the engine and the lift in the last
\* call, if it got a list.
ListParsed ==
    {ParseAndLift(calls[i].g, calls[i].arg) :
        i \in {j \in CallsOf("engine") :
                 /\ calls[j].g = "mailbox_or_url_list"
                 /\ ~IsRaise(ParseAndLift(calls[j].g, calls[j].arg))}}

\* C11 (as claimed): parse_list given a non-empty string within the length
\* ceiling returns, if parse_discrete_list got a list of any length, that
\* list as parsed and an empty unparsed, and otherwise an empty parsed and
\* the string alone in unparsed.
C11_ListTextAllOrNothing ==
    (Finished("parse_list") /\ IsStr(op.addr_list) /\ Truthy(op.addr_list)
       /\ ~OverLong(op.addr_list, MAX_ADDRESS_LIST_LENGTH) /\ op.as_tuple)
    => IF ListParsed # {}
       THEN /\ result.items[1] \in ListParsed
            /\ result.items[2] = PyList(<<>>)
       ELSE /\ result.items[1] = AddressList(<<>>)
            /\ result.items[2] = PyList(<<op.addr_list>>)

\* What parse_list's loop makes of one item: the address parse returns for
\* a string, an address itself, and nothing for a string parse returns
\* nothing for and for an item of another type.
ItemAddress(item) ==
    IF IsStr(item) THEN metrics_wrapper(parse(item, FALSE, 0).rv, FALSE)
    ELSE IF IsEmailAddress(item) \/ IsUrlAddress(item) THEN item
    ELSE None

\* C12: parse_list given a list of at most MAX_ADDRESS_NUMBER items returns
\* as parsed, in the order of the input, the address parse returned for each
\* string it succeeded on and each EmailAddress and UrlAddress item itself,
\* and as unparsed, in the order of the input, every other item as given.
C12_ItemsPartitionedInOrder ==
    (Finished("parse_list") /\ IsList(op.addr_list) /\ op.as_tuple
       /\ Len(op.addr_list.items) <= MAX_ADDRESS_NUMBER)
    => /\ result.items[1] =
             AddressList(SelectSeq([i \in 1..Len(op.addr_list.items) |->
                                       ItemAddress(op.addr_list.items[i])],
                                   LAMBDA v : v # None))
       /\ result.items[2] =
             PyList(SelectSeq(op.addr_list.items,
                              LAMBDA x : ItemAddress(x) = None))

\* Two items went to parsed, a string as the address parse returned and an
\* address object, and they are not the same address.
C12_Witness ==
    /\ Finished("parse_list") /\ IsList(op.addr_list) /\ op.as_tuple
    /\ Len(op.addr_list.items) = 2
    /\ IsStr(op.addr_list.items[1]) /\ IsEmailAddress(op.addr_list.items[2])
    /\ Len(result.items[1].container) = 2
    /\ result.items[1].container[1] # result.items[1].container[2]
    /\ result.items[1].container[2] = op.addr_list.items[2]

MetricsKeys == {"parsing", "mx_lookup", "dns_lookup", "mx_conn", "custom_grammar"}

\* C13: on every return path validate_address returns a metrics record with
\* the keys parsing, mx_lookup, dns_lookup, mx_conn and custom_grammar, and
\* the entries of the stages it did not reach are 0: parsing without a
\* grammar parse, the three of the MX lookup without a lookup,
\* custom_grammar without a call of the plugin registry.
C13_MetricsOnEveryPath ==
    (Finished("validate_address") /\ op.metrics)
    => /\ ~IsRaise(result)
       /\ Len(result.items) = 2
       /\ DOMAIN result.items[2] = MetricsKeys
       /\ CallsOf("clone") = {} => result.items[2].parsing = 0
       /\ CallsOf("mail_exchanger_lookup") = {}
             => /\ result.items[2].mx_lookup = 0
                /\ result.items[2].dns_lookup = 0
                /\ result.items[2].mx_conn = 0
       /\ CallsOf("plugin_for_esp") = {} => result.items[2].custom_grammar = 0

\* The MX lookup gave no exchanger: no address is returned, the parse and
\* the lookup have their times in the record, the plugin stage has 0.
C13_Witness ==
    /\ Finished("validate_address") /\ op.metrics
    /\ result.items[1] = None
    /\ CallsOf("mail_exchanger_lookup") # {} /\ CallsOf("plugin_for_esp") = {}
    /\ result.items[2].parsing > 0 /\ result.items[2].mx_conn > 0
    /\ result.items[2].custom_grammar = 0

\* C14 (as claimed): the mx_lookup, dns_lookup and mx_conn entries of the
\* metrics record validate_list returns are the sums of what every MX
\* lookup made during the call reported, those made by validate_address in
\* the second pass included.
C14_MetricsAggregated ==
    (Finished("validate_list") /\ Returned /\ frame # NoFrame /\ op.metrics)
    => /\ result.items[Len(result.items)].mx_lookup = frame.reported.mx_lookup
       /\ result.items[Len(result.items)].dns_lookup = frame.reported.dns_lookup
       /\ result.items[Len(result.items)].mx_conn = frame.reported.mx_conn

\* The EmailAddress values an EmailAddress is compared with.
EmailOthers == {o \in Others : IsEmailAddress(o)}

\* lower-case(a.address), character by character.
LowerAddress(e) == <<Lower(e.local_part), "@", Lower(e.domain)>>

\* C15: two EmailAddress values are equal iff their addresses are the same
\* once lower-cased, whatever their display names and the case of their
\* local parts and domains; equality is reflexive, symmetric and
\* transitive, and equal values have the same hash.
C15_EqualityByLowerAddress ==
    (Holding /\ op.fn = "__eq__" /\ IsEmailAddress(op.other))
    => /\ result = PyBool(LowerAddress(obj) = LowerAddress(op.other))
       /\ EmailAddress_eq(obj, obj).rv = PyBool(TRUE)
       /\ EmailAddress_eq(op.other, obj).rv = result
       /\ \A c \in EmailOthers :
             (result.b /\ EmailAddress_eq(op.other, c).rv.b)
                => EmailAddress_eq(obj, c).rv.b
       /\ result.b => EmailAddress_hash(obj) = EmailAddress_hash(op.other)

\* Two addresses that differ in display name and in the case of local part
\* and domain were found equal.
C15_Witness ==
    /\ Holding /\ op.fn = "__eq__" /\ IsEmailAddress(op.other)
    /\ result = PyBool(TRUE)
    /\ obj.display_name # op.other.display_name
    /\ obj.local_part # op.other.local_part
    /\ obj.domain # op.other.domain

\* C16 (as claimed): to_ace and full_spec both fail for an EmailAddress
\* whose local part has a non-ASCII character, and neither fails for one
\* whose local part is pure ASCII.
C16_BothSignalFailure ==
    (Holding /\ op.fn \in {"to_ace", "full_spec"})
    => (IsRaise(result) <=> ~is_pure_ascii(obj.local_part))

\* C16 (amended): to_ace fails, with ValueError, exactly for an address
\* whose local part has a non-ASCII character; full_spec fails for no
\* address, and returns a byte string.
C16_OnlyToAceFails ==
    /\ (Holding /\ op.fn = "to_ace")
       => /\ IsRaise(result) <=> ~is_pure_ascii(obj.local_part)
          /\ IsRaise(result) => result = Raise("ValueError")
    /\ (Holding /\ op.fn = "full_spec")
       => (~IsRaise(result) /\ IsStr(result) /\ ~IsUnicode(result))

\* full_spec was asked of an address with a non-ASCII local part and
\* returned a string.
C16_Witness ==
    /\ Holding /\ op.fn = "full_spec"
    /\ ~is_pure_ascii(obj.local_part)
    /\ IsStr(result)

\* C17: full_spec returns, as bytes, the unicode form (display name, local
\* part and domain as they are) of an address whose local part has a
\* non-ASCII character, and otherwise the ASCII-compatible form: the
\* domain lower-cased and IDNA-encoded and a display name, if there is one,
\* MIME-encoded and quoted.
C17_FullSpecForms ==
    (Holding /\ op.fn = "full_spec")
    => result =
         Bytes(IF ~is_pure_ascii(obj.local_part)
               THEN IF obj.display_name # ""
                    THEN <<obj.display_name, " <", obj.local_part, "@",
                           obj.domain, ">">>
                    ELSE <<obj.local_part, "@", obj.domain>>
               ELSE IF obj.display_name # ""
                    THEN <<smart_quote(encode_string(obj.display_name)), " <",
                           obj.local_part, "@",
                           idna_encode(Lower(obj.domain)), ">">>
                    ELSE <<obj.local_part, "@", idna_encode(Lower(obj.domain))>>)

\* The ASCII-compatible form of an address with a non-ASCII display name
\* and a domain in upper case was returned.
C17_Witness ==
    /\ Holding /\ op.fn = "full_spec"
    /\ obj = EmailAddress("e'", "a", "B.com")
    /\ result = Bytes(<<"=?utf-8?b?w6k=?=", " <", "a", "@", "b.com", ">">>)

\* The arguments of a constructor call select no mode.
NoMode ==
    \/ /\ op.fn = "EmailAddress"
       /\ ~Truthy(op.args.raw_display_name) /\ ~Truthy(op.args.raw_addr_spec)
       /\ ~(Truthy(op.args.local_part) /\ Truthy(op.args.domain))
    \/ /\ op.fn = "UrlAddress"
       /\ ~Truthy(op.args.raw) /\ ~Truthy(op.args.address)

\* C18 (as claimed): every EmailAddress built has a non-empty local_part
\* and a non-empty domain, whichever mode of the constructor built it, and
\* every UrlAddress a non-empty address; a constructor call whose arguments
\* select no mode raises and leaves no instance.
C18_NonEmptyOnceBuilt ==
    /\ (obj # None /\ IsEmailAddress(obj))
       => (obj.local_part # "" /\ obj.domain # "")
    /\ (obj # None /\ IsUrlAddress(obj)) => obj.address # ""
    /\ (pc = "done" /\ op.fn \in {"EmailAddress", "UrlAddress"} /\ NoMode)
       => (IsRaise(result) /\ obj = None)

\* C19: whatever is done with an EmailAddress once it is built, reading a
\* property, encoding it, comparing it, hashing it or assigning its
\* display_name, its local_part, its domain, its address, its hash and what
\* it is equal to stay as they were, and only the assignment changes the
\* object at all.
C19_OnlyDisplayNameChanges ==
    [][ (Holding /\ pc' = "done")
        => /\ obj'.local_part = obj.local_part
           /\ obj'.domain = obj.domain
           /\ EmailAddress_address(obj') = EmailAddress_address(obj)
           /\ EmailAddress_hash(obj') = EmailAddress_hash(obj)
           /\ \A c \in Others :
                 EmailAddress_eq(obj', c).rv = EmailAddress_eq(obj, c).rv
           /\ op'.fn # "display_name.setter" => obj' = obj
      ]_vars

\* display_name was assigned, and the object carries the new name and the
\* local part and domain it was built with.
C19_Witness ==
    /\ Holding /\ op.fn = "display_name.setter"
    /\ op.display_name = "N"
    /\ obj = EmailAddress("N", "e'", "B.com")

\* What an address is compared by: local part and domain in lower case for
\* an EmailAddress, the address as it is for a UrlAddress.
ComparedBy(x) ==
    IF IsEmailAddress(x) THEN <<Lower(x.local_part), "@", Lower(x.domain)>>
    ELSE <<x.address>>

ElementsOf(container) == {ComparedBy(container[i]) : i \in 1..Len(container)}

\* The comparison of an AddressList with what its operand was parsed to.
SetComparison(self, parsed) ==
    /\ ~IsRaise(parsed) /\ parsed.t = "AddressList"
    /\ result = PyBool(ElementsOf(self.container) = ElementsOf(parsed.container))
    /\ AddressList_eq(parsed, self).rv = result

\* C20: an AddressList is equal to another iff the sets of their elements
\* are the same, whatever the order of the elements and however often each
\* occurs, and the comparison is symmetric; a list or a delimited text is
\* parsed with parse_list first and its result compared in the same way.
C20_SetEquality ==
    /\ (Finished("AddressList.__eq__") /\ op.other.t = "AddressList")
       => (calls = <<>> /\ SetComparison(op.self, op.other))
    /\ (Finished("AddressList.__eq__") /\ (op.other.t = "list" \/ IsStr(op.other)))
       => /\ calls = parse_list(op.other, FALSE, FALSE, 0).calls
          /\ SetComparison(op.self,
                           metrics_wrapper(parse_list(op.other, FALSE, FALSE, 0).rv,
                                           FALSE))

\* Two lists with the same elements in another order, one of them twice in
\* one list, were found equal.
C20_Witness ==
    /\ Finished("AddressList.__eq__")
    /\ op.self = AddressList(<<UrlAddress("http://h"), EmailAddress("N", "A", "B.com")>>)
    /\ op.other = PyList(<<Bytes(<<"a", "@", "b.com">>), UrlAddress("http://h")>>)
    /\ result = PyBool(TRUE)

\* What a raw-text operand of a concatenation is parsed to.
ParsedOperand(other) ==
    metrics_wrapper(parse_list(other, FALSE, FALSE, 0).rv, FALSE)

\* The new list of a concatenation and its operands after it.
ConcatenationOf(self, parsed) ==
    /\ ~IsRaise(parsed) /\ parsed.t = "AddressList"
    /\ result = AddressList(self.container \o parsed.container)
    /\ frame.self = op.self /\ frame.other = op.other

\* C21 (as claimed): self + other is a new AddressList of the elements of
\* self followed by those of other, self and other stay as they were, and a
\* raw-text other, a list of strings or one delimited string, is parsed
\* with parse_list first.
C21_ConcatenationParsesRawText ==
    /\ (Finished("AddressList.__add__") /\ op.other.t = "AddressList")
       => (calls = <<>> /\ ConcatenationOf(op.self, op.other))
    /\ (Finished("AddressList.__add__") /\ (op.other.t = "list" \/ IsStr(op.other)))
       => /\ calls = parse_list(op.other, FALSE, FALSE, 0).calls
          /\ ConcatenationOf(op.self, ParsedOperand(op.other))

\* An item of pass 1 passed the plugin check: there was an exchanger, and
\* no plugin for it or a plugin that did not answer False.
PassedPluginCheck(a) ==
    a.exch # None /\ (a.plugin = None \/ ~a.refused)

\* The time the plugin check took of the last item that passed it, 0 if
\* none did.
LastPassedTime(answers) ==
    IF \A i \in 1..Len(answers) : ~PassedPluginCheck(answers[i]) THEN 0
    ELSE answers[CHOOSE i \in 1..Len(answers) :
                    /\ PassedPluginCheck(answers[i])
                    /\ \A j \in (i + 1)..Len(answers) :
                          ~PassedPluginCheck(answers[j])].dtc

\* C22: in the first loop of validate_list custom_grammar is overwritten,
\* not summed: after each item it is the time the plugin check took of the
\* last item that passed it, 0 if none did; an item rejected for want of an
\* exchanger or by the plugin leaves it as it was, while mx_lookup,
\* dns_lookup and mx_conn grow by what the lookup of each item reported,
\* the item accepted or rejected.
C22_CustomGrammarOverwritten ==
    [][ (pc = "pass1" /\ pc' \in {"pass1", "pass2", "done"} /\ ~IsRaise(result'))
        => /\ Len(frame'.answers) = Len(frame.answers) + 1
           /\ frame'.mtimes.custom_grammar = LastPassedTime(frame'.answers)
           /\ IF PassedPluginCheck(frame'.answers[Len(frame'.answers)])
              THEN /\ frame'.mtimes.custom_grammar =
                         frame'.answers[Len(frame'.answers)].dtc
                   /\ Len(frame'.plist) = Len(frame.plist) + 1
              ELSE /\ frame'.mtimes.custom_grammar = frame.mtimes.custom_grammar
                   /\ Len(frame'.ulist) = Len(frame.ulist) + 1
           /\ frame'.mtimes.mx_lookup - frame.mtimes.mx_lookup
                 = frame'.reported.mx_lookup - frame.reported.mx_lookup
           /\ frame'.mtimes.dns_lookup - frame.mtimes.dns_lookup
                 = frame'.reported.dns_lookup - frame.reported.dns_lookup
           /\ frame'.mtimes.mx_conn - frame.mtimes.mx_conn
                 = frame'.reported.mx_conn - frame.reported.mx_conn
      ]_vars

\* Two items passed the plugin check, each taking one unit of time and each
\* lookup reporting one MX lookup; custom_grammar is 1 and mx_lookup 2.
C22_Witness ==
    /\ Finished("validate_list") /\ Returned /\ frame # NoFrame
    /\ Len(frame.answers) = 2
    /\ PassedPluginCheck(frame.answers[1]) /\ frame.answers[1].dtc = 1
    /\ PassedPluginCheck(frame.answers[2]) /\ frame.answers[2].dtc = 1
    /\ frame.mtimes.custom_grammar = 1
    /\ frame.mtimes.mx_lookup = 2

\* The elements of seq, from the i-th on, whose place is in keep, in the
\* order of seq.
RECURSIVE Kept(_, _, _)
Kept(seq, keep, i) ==
    IF i > Len(seq) THEN <<>>
    ELSE (IF i \in keep THEN <<seq[i]>> ELSE <<>>) \o Kept(seq, keep, i + 1)

\* The places of the pass-1 items that were accepted.
AcceptedInPass1 ==
    {i \in 1..Len(frame.answers) : PassedPluginCheck(frame.answers[i])}

\* The accepted and rejected collections begin with the pass-1 items in
\* their order; what follows them comes from the unparsed items in theirs.
Pass1First(acc1, rej1) ==
    /\ Len(frame.plist) >= Len(acc1) /\ Len(frame.ulist) >= Len(rej1)
    /\ SubSeq(frame.plist, 1, Len(acc1)) = acc1
    /\ SubSeq(frame.ulist, 1, Len(rej1)) = rej1
    /\ \E bad \in SUBSET (1..Len(frame.unparseable)) :
          /\ SubSeq(frame.ulist, Len(rej1) + 1, Len(frame.ulist))
                = Kept(frame.unparseable, bad, 1)
          /\ Len(frame.plist) - Len(acc1)
                = Len(frame.unparseable) - Cardinality(bad)

\* C25: in the accepted collection validate_list returns the addresses
\* accepted in pass 1 come first, in the order of the items they came
\* from, and those recovered in pass 2 after them; in the rejected
\* collection the pass-1 rejects come first and the pass-2 rejects after
\* them, each group in the order of its items.
C25_Pass1BeforePass2 ==
    (Finished("validate_list") /\ Returned /\ frame # NoFrame)
    => /\ Len(frame.answers) = Len(frame.parsed_addresses)
       /\ Pass1First(
              Kept(frame.parsed_addresses, AcceptedInPass1, 1),
              Kept([i \in 1..Len(frame.parsed_addresses) |->
                       full_spec(frame.parsed_addresses[i])],
                   (1..Len(frame.answers)) \ AcceptedInPass1, 1))
       /\ ValueOf(result, op.metrics \/ op.as_tuple) = AddressList(frame.plist)
       /\ op.as_tuple => result.items[2] = PyList(frame.ulist)

\* A text that was repaired stood before an address object in the input and
\* comes after it in the accepted collection.
C25_Witness ==
    /\ Finished("validate_list") /\ Returned /\ frame # NoFrame
    /\ op.addr_list = PyList(<<Bytes(<<"?">>), EmailAddress("N", "a", "B.com")>>)
    /\ Len(frame.plist) = 2
    /\ frame.plist[1] = EmailAddress("N", "a", "B.com")

\* The arguments the MX lookup and the plugin were called with, in order.
Handed(c, cs) == Kept([j \in 1..Len(cs) |-> cs[j].arg],
                      {j \in 1..Len(cs) : cs[j].c = c}, 1)
TextsHanded(c, cs) ==
    [j \in 1..Len(Handed(c, cs)) |-> Handed(c, cs)[j].toks]

\* validate_list was called with the one string s, and parse accepted it as
\* an email address.
OneAcceptedString ==
    /\ Finished("validate_list") /\ Returned /\ frame # NoFrame
    /\ IsList(op.addr_list) /\ Len(op.addr_list.items) = 1
    /\ IsStr(op.addr_list.items[1])
    /\ Len(frame.parsed_addresses) = 1
    /\ IsEmailAddress(frame.parsed_addresses[1])

\* The collaborators answer validate_address as they answered the list
\* pipeline, where validate_address asks them.
SameAnswers(env, o) ==
    \/ Handed("mail_exchanger_lookup", o.calls) = <<>>
    \/ Answer(env) = frame.answers[1]

\* The list pipeline and validate_address, which did o, agree on s, and
\* what validate_address handed to the MX lookup and to the plugin is what
\* the list pipeline handed to them.
Agree(o) ==
    /\ ~IsRaise(o.rv)
    /\ Len(frame.plist) = 1 <=> Truthy(o.rv.items[1])
    /\ Handed("mail_exchanger_lookup", o.calls) # <<>>
          => TextsHanded("mail_exchanger_lookup", o.calls)
                = TextsHanded("mail_exchanger_lookup", calls)
    /\ Handed("plugin.validate", o.calls) # <<>>
          => TextsHanded("plugin.validate", o.calls)
                = TextsHanded("plugin.validate", calls)

\* C24 (as claimed): for a string s that parse accepts as an email address
\* validate_list([s]) accepts it iff validate_address(s) returns an
\* address, whatever the preparser, the MX lookup and the plugin answer, and
\* both hand the same domain to the MX lookup and the same local part to
\* the plugin.
C24_PipelinesAgree ==
    OneAcceptedString
    => \A env \in Envs :
          SameAnswers(env, validate_address(op.addr_list.items[1], env))
             => Agree(validate_address(op.addr_list.items[1], env))

\* The preparser returns the local part and the domain of the address.
PreparserKeeps(env, paddr) ==
    /\ env.pre # None
    /\ env.pre.items[1].toks = <<paddr.local_part>>
    /\ env.pre.items[2].toks = <<paddr.domain>>

\* C24 (amended): for a string s that parse accepts as an email address and
\* for which the preparser returns the local part and the domain of that
\* address, validate_list([s]) accepts it iff validate_address(s) returns
\* an address, whatever the MX lookup and the plugin answer, and both hand
\* the same domain to the MX lookup and the same local part to the plugin.
C24_AgreeWherePreparserKeeps ==
    OneAcceptedString
    => \A env \in Envs :
          (/\ PreparserKeeps(env, frame.parsed_addresses[1])
           /\ SameAnswers(env, validate_address(op.addr_list.items[1], env)))
             => Agree(validate_address(op.addr_list.items[1], env))

\* The list pipeline rejected a string on the plugin's answer, and
\* validate_address, the preparser keeping the parts, does so too.
C24_Witness ==
    /\ OneAcceptedString
    /\ op.addr_list.items[1] = Bytes(<<"a", "@", "b.com">>)
    /\ frame.answers[1].refused
    /\ Len(frame.ulist) = 1
    /\ \E env \in Envs :
          /\ PreparserKeeps(env, frame.parsed_addresses[1])
          /\ Answer(env) = frame.answers[1]
          /\ validate_address(op.addr_list.items[1], env).rv.items[1] = None

\* C23: whatever entry points and constructors the threads are in, and
\* however their steps interleave, what the grammar engine is passed as its
\* tokenizer is never the template but a tokenizer cloned by the thread
\* that passes it, in the call it is in, and no tokenizer is passed to the
\* engine twice, by one call or by two.
C23_TokenizerPerCall ==
    /\ \A u \in passed :
          /\ u.lexer # None /\ u.lexer # Template
          /\ u.lexer.id \in 1..Len(tokenizers)
          /\ tokenizers[u.lexer.id] = [thread |-> u.thread]
    /\ \A u, v \in passed : u.lexer = v.lexer => u = v

\* Two threads are in their calls at once: one cloned its tokenizer first
\* and has not passed it yet, the other cloned after it and has passed its
\* own to the engine.
C23_Witness ==
    \E t1, t2 \in Threads :
        /\ t1 # t2
        /\ threads[t1].todo # <<>> /\ Head(threads[t1].todo) = "engine"
        /\ threads[t1].lexer # None
        /\ threads[t2].fn \notin {"none", "returned"}
        /\ \E u \in passed :
              /\ u.thread = t2
              /\ u.lexer = threads[t2].lexer
              /\ u.lexer.id > threads[t1].lexer.id

====
